---- MODULE Spec2Model ----
(***************************************************************************)
(* AgentDock transcript engine: the three provider adapters (Claude Code,  *)
(* Codex, OpenCode) and the desktop aggregator, as a state machine.        *)
(*                                                                         *)
(* The state is the on-disk storage the adapters read (written only by the *)
(* agent CLIs, here the environment), the wall clock, and the value the    *)
(* last call returned.  Every adapter call is one atomic action: it reads  *)
(* the storage, leaves it unchanged and sets `result`.  A write to the     *)
(* storage or a clock tick discards the previous return value.             *)
(*                                                                         *)
(* Representation.                                                         *)
(*   Option<T>   None = << >>, Some(v) = << v >>.                          *)
(*   String      a sequence of one-character strings.                      *)
(*   i64 epoch   an offset in ms from a base instant of the present era    *)
(*               (>= 10^12 ms); see RawInt and normalize_epoch.            *)
(***************************************************************************)
EXTENDS Integers, Sequences, FiniteSets, TLC

VARIABLES
    now,            \* SystemTime::now() in ms (offset from the base instant)
    claudeFiles,    \* <claude config dir>/projects/**   in read_dir order
    codexFiles,     \* <codex home>/sessions/**          in read_dir order
    roots,          \* provider -> "ok" | "missing" | "unreadable"
    ocProjects,     \* <opencode data>/storage/project/*   in read_dir order
    ocSessions,     \* <opencode data>/storage/session/** in read_dir order
    ocMessages,     \* <opencode data>/storage/message/<session>/** in read_dir order
    ocParts,        \* <opencode data>/storage/part/<message>/*
    result,         \* the value returned by the call just made
    db,             \* the SQLite database of the desktop app
    terminal        \* the embedded terminal manager of the desktop app and its threads

vars == <<now, claudeFiles, codexFiles, roots, ocProjects, ocSessions, ocMessages, ocParts, result,
          db, terminal>>

desktop == <<db, terminal>>

storage == <<claudeFiles, codexFiles, roots, ocProjects, ocSessions, ocMessages, ocParts>>

-----------------------------------------------------------------------------
(* Bounds of the model *)

MaxTicks == 2
MaxLines == 2
MaxTerminals == 2
MaxCallers == 2
MaxOutput == 1
MaxStreamLen == 4
MaxMessages == 2
MaxParts == 1
MaxSessions == 1

-----------------------------------------------------------------------------
(* Option, sequences *)

None == << >>
Some(v) == << v >>
IsSome(o) == o # << >>
IsNone(o) == o = << >>
Unwrap(o) == o[1]
UnwrapOr(o, d) == IF o = << >> THEN d ELSE o[1]
OrElse(o, p) == IF o = << >> THEN p ELSE o

Max(a, b) == IF a >= b THEN a ELSE b

NoResult == [op |-> "none"]

-----------------------------------------------------------------------------
(* Time *)

CODEX_AGENT_ACTIVITY_WINDOW_MS == 120000
OPENCODE_AGENT_ACTIVITY_WINDOW_MS == 120000

\* The clock advances in steps of one activity window.
TickMs == CODEX_AGENT_ACTIVITY_WINDOW_MS

\* Instants are counted in milliseconds on a scale whose 0 is the Unix epoch
\* and on which the first clock reading is T0; the values the code compares
\* them with (0 for "no time") keep their order with every instant.
T0 == TickMs
T1 == T0 + TickMs

Times == { T0 + k * TickMs : k \in 0..MaxTicks }

\* An integer of a transcript.  Instants of the present era are >= 10^12 when
\* written in milliseconds and < 10^12 when written in seconds; `off` is the
\* distance from the base instant in the unit of `scale`.
MsInt(off) == [scale |-> "ms", off |-> off]
SecInt(off) == [scale |-> "s", off |-> off]

\* A JSON timestamp field.
TsNumber(i) == [k |-> "number", int |-> i]          \* 1700000000000
TsNumericString(i) == [k |-> "numstr", int |-> i]   \* "1700000000000"
TsRfc3339(ms) == [k |-> "rfc3339", ms |-> ms]       \* "2023-11-14T22:13:20Z"
TsText == [k |-> "text"]                            \* "yesterday"
TsOther == [k |-> "other"]                          \* 1.5, true, {}, "  "

normalize_epoch(raw) ==
    IF raw.scale = "s" THEN raw.off * 1000 ELSE raw.off

codex_parse_rfc3339_timestamp_ms(value) ==
    IF value.k = "rfc3339" THEN Some(value.ms) ELSE None

codex_parse_timestamp_ms(value) ==
    IF IsNone(value) THEN None
    ELSE LET v == Unwrap(value) IN
         CASE v.k = "number" -> Some(normalize_epoch(v.int))
           [] v.k = "numstr" -> Some(normalize_epoch(v.int))
           [] v.k \in {"rfc3339", "text"} -> codex_parse_rfc3339_timestamp_ms(v)
           [] OTHER -> None

-----------------------------------------------------------------------------
(* Codex: transcript records *)

\* One line of a .jsonl transcript.  enc = "json": the line parses; "malformed":
\* serde_json::from_str fails; "nonutf8": BufRead::lines yields Err for it.
CodexPayload(type, role) ==
    [type |-> type, role |-> role, id |-> None, cwd |-> None,
     content |-> None, name |-> None, arguments |-> None, output |-> None]

CodexRecord(type, payload, timestamp) ==
    [enc |-> "json", type |-> type, payload |-> payload, timestamp |-> timestamp]

MalformedLine == [enc |-> "malformed"]
NonUtf8Line == [enc |-> "nonutf8"]

codex_extract_semantic_event_kind_from_event_msg(payload) ==
    IF IsNone(payload.type) THEN None
    ELSE CASE Unwrap(payload.type) = "user_message" -> Some("UserMessage")
           [] Unwrap(payload.type) = "agent_reasoning" -> Some("AgentReasoning")
           [] Unwrap(payload.type) = "agent_message" -> Some("AgentMessage")
           [] Unwrap(payload.type) = "turn_aborted" -> Some("TurnAborted")
           [] OTHER -> None

codex_extract_semantic_event_kind_from_response_item(payload) ==
    IF IsNone(payload.type) THEN None
    ELSE CASE Unwrap(payload.type) = "reasoning" -> Some("AgentReasoning")
           [] Unwrap(payload.type) \in {"function_call", "function_call_output",
                                        "custom_tool_call", "custom_tool_call_output"}
                -> Some("AgentTool")
           [] Unwrap(payload.type) = "message" ->
                IF UnwrapOr(payload.role, "assistant") = "user"
                THEN Some("UserMessage") ELSE Some("AgentMessage")
           [] OTHER -> None

codex_extract_semantic_event_kind(record) ==
    IF IsNone(record.type) THEN None
    ELSE CASE Unwrap(record.type) = "event_msg" ->
                IF IsNone(record.payload) THEN None
                ELSE codex_extract_semantic_event_kind_from_event_msg(Unwrap(record.payload))
           [] Unwrap(record.type) = "response_item" ->
                IF IsNone(record.payload) THEN None
                ELSE codex_extract_semantic_event_kind_from_response_item(Unwrap(record.payload))
           [] OTHER -> None

codex_kind_as_str(kind) ==
    CASE kind = "UserMessage" -> "user_message"
      [] kind = "AgentReasoning" -> "agent_reasoning"
      [] kind = "AgentTool" -> "agent_tool"
      [] kind = "AgentMessage" -> "agent_message"
      [] kind = "TurnAborted" -> "turn_aborted"

\* reader.lines().map_while(Result::ok): the lines up to the first one that
\* cannot be read (invalid UTF-8), that line and all after it dropped.
RECURSIVE lines_map_while_ok(_)
lines_map_while_ok(lines) ==
    IF lines = << >> \/ Head(lines).enc = "nonutf8" THEN << >>
    ELSE <<Head(lines)>> \o lines_map_while_ok(Tail(lines))

\* The loop of load_thread_runtime_state: acc = <<last_kind, last_event_at_ms>>.
RECURSIVE codex_runtime_loop(_, _)
codex_runtime_loop(lines, acc) ==
    IF lines = << >> THEN acc
    ELSE LET line == Head(lines) IN
         IF line.enc # "json" THEN codex_runtime_loop(Tail(lines), acc)
         ELSE LET kind == codex_extract_semantic_event_kind(line)
                  ts == codex_parse_timestamp_ms(line.timestamp)
              IN IF IsNone(kind) THEN codex_runtime_loop(Tail(lines), acc)
                 ELSE codex_runtime_loop(Tail(lines),
                        <<kind, IF IsSome(ts) THEN ts ELSE acc[2]>>)

codex_is_recent(last_event_at_ms, clock) ==
    IF IsNone(last_event_at_ms) THEN FALSE
    ELSE clock - Unwrap(last_event_at_ms) <= CODEX_AGENT_ACTIVITY_WINDOW_MS

\* A classifier that counts every agent-side kind as work in progress.
codex_counts_every_agent_kind(last_kind) ==
    IsSome(last_kind) /\ Unwrap(last_kind) \in {"AgentReasoning", "AgentTool", "AgentMessage"}

codex_counts_as_answering(last_kind) ==
    IsSome(last_kind) /\ Unwrap(last_kind) \in {"AgentReasoning", "AgentTool"}

codex_load_thread_runtime_state(file, clock) ==
    IF ~file.readable
    THEN [agent_answering |-> FALSE, last_event_kind |-> None, last_event_at_ms |-> None]
    ELSE LET acc == codex_runtime_loop(lines_map_while_ok(file.lines), <<None, None>>)
             is_recent == codex_is_recent(acc[2], clock)
         IN [agent_answering |-> is_recent /\ codex_counts_as_answering(acc[1]),
             last_event_kind |-> IF IsSome(acc[1])
                                 THEN Some(codex_kind_as_str(Unwrap(acc[1]))) ELSE None,
             last_event_at_ms |-> acc[2]]

-----------------------------------------------------------------------------
(* Strings (sequences of characters) and paths *)

IsWhitespace(ch) == ch \in {" ", "\n", "\t"}

RECURSIVE TrimStart(_)
TrimStart(s) ==
    IF s # << >> /\ IsWhitespace(Head(s)) THEN TrimStart(Tail(s)) ELSE s

RECURSIVE TrimEnd(_)
TrimEnd(s) ==
    IF s # << >> /\ IsWhitespace(s[Len(s)]) THEN TrimEnd(SubSeq(s, 1, Len(s) - 1)) ELSE s

\* str::trim
Trim(s) == TrimEnd(TrimStart(s))

\* str::starts_with
StartsWith(s, prefix) ==
    Len(prefix) <= Len(s) /\ SubSeq(s, 1, Len(prefix)) = prefix

Ellipsis == <<".", ".", ".">>

truncate_text(input, max_chars) ==
    IF max_chars = 0 THEN << >>
    ELSE IF Len(input) <= max_chars THEN input
    ELSE SubSeq(input, 1, max_chars) \o Ellipsis

\* The components of a path between its separators, empty ones included.
RECURSIVE SplitPath(_, _)
SplitPath(path, current) ==
    IF path = << >> THEN <<current>>
    ELSE IF Head(path) = "/" THEN <<current>> \o SplitPath(Tail(path), << >>)
    ELSE SplitPath(Tail(path), Append(current, Head(path)))

\* A base name that is whatever follows the last separator, empty or not.
path_basename_after_last_separator(path) ==
    LET parts == SplitPath(path, << >>) IN Some(parts[Len(parts)])

\* Path::new(path).file_name(): the last component when it is a normal one;
\* repeated separators and "." components are skipped, a final ".." has no name.
path_basename(path) ==
    LET normal == SelectSeq(SplitPath(path, << >>), LAMBDA c : c # << >> /\ c # <<".">>)
    IN IF normal = << >> THEN None
       ELSE IF normal[Len(normal)] = <<".", ".">> THEN None
       ELSE Some(normal[Len(normal)])

\* A stable sort of records by their sort_key field, as slice::sort_by_key.
RankAsc(seq, i) ==
    Cardinality({ j \in 1..Len(seq) :
        \/ seq[j].sort_key < seq[i].sort_key
        \/ (seq[j].sort_key = seq[i].sort_key /\ j < i) }) + 1

sort_by_key(seq) ==
    [ r \in 1..Len(seq) |-> seq[CHOOSE i \in 1..Len(seq) : RankAsc(seq, i) = r] ]

RankDesc(seq, i) ==
    Cardinality({ j \in 1..Len(seq) :
        \/ seq[j].sort_key > seq[i].sort_key
        \/ (seq[j].sort_key = seq[i].sort_key /\ j < i) }) + 1

sort_by_key_reverse(seq) ==
    [ r \in 1..Len(seq) |-> seq[CHOOSE i \in 1..Len(seq) : RankDesc(seq, i) = r] ]

\* Iterator::find
Find(seq, P(_)) ==
    LET hits == { i \in 1..Len(seq) : P(seq[i]) }
    IN IF hits = {} THEN None
       ELSE Some(seq[CHOOSE i \in hits : \A j \in hits : i <= j])

\* ProviderResult
Ok(value) == [ok |-> TRUE, value |-> value]
Err(code, retryable) == [ok |-> FALSE, code |-> code, retryable |-> retryable]

provider_error(code, retryable) == Err(code, retryable)

\* i64::to_string of a normalized millisecond value, and the strings it is read
\* back from: a decimal of the millisecond scale, or a text that is no number.
DecimalString(ms) == [k |-> "decimal", int |-> MsInt(ms)]
NonNumericString == [k |-> "text"]

-----------------------------------------------------------------------------
(* Codex: scanning *)

\* A directory entry of a transcript tree.
TranscriptFile(stem, ext, mtime, lines) ==
    [stem |-> stem, ext |-> ext, readable |-> TRUE, mtime |-> mtime, lines |-> lines]

codex_collect_jsonl_files(root, files) ==
    IF root # "ok" THEN << >>
    ELSE SelectSeq(files, LAMBDA f : f.ext = "jsonl")

\* The loop of parse_thread_file:
\* acc = [session_id, project_path, last_active_at, sort_key].
RECURSIVE codex_parse_thread_loop(_, _)
codex_parse_thread_loop(lines, acc) ==
    IF lines = << >> THEN acc
    ELSE LET line == Head(lines) IN
         IF line.enc # "json" THEN codex_parse_thread_loop(Tail(lines), acc)
         ELSE LET meta == line.type = Some("session_meta") /\ IsSome(line.payload)
                  acc1 == IF meta /\ IsNone(acc.session_id)
                          THEN [acc EXCEPT !.session_id = Unwrap(line.payload).id]
                          ELSE acc
                  acc2 == IF meta /\ IsNone(acc.project_path)
                          THEN [acc1 EXCEPT !.project_path = Unwrap(line.payload).cwd]
                          ELSE acc1
                  ts == codex_parse_timestamp_ms(line.timestamp)
                  acc3 == IF IsSome(ts)
                          THEN [acc2 EXCEPT !.last_active_at = Some(DecimalString(Unwrap(ts))),
                                            !.sort_key = Max(acc2.sort_key, Unwrap(ts))]
                          ELSE acc2
              IN codex_parse_thread_loop(Tail(lines), acc3)

CodexSessionLabel == <<"C", "o", "d", "e", "x", " ", "s", "e", "s", "s", "i", "o", "n", " ">>

codex_parse_thread_file(file, clock) ==
    IF ~file.readable THEN None
    ELSE LET acc == codex_parse_thread_loop(lines_map_while_ok(file.lines),
                        [session_id |-> None, project_path |-> None,
                         last_active_at |-> None, sort_key |-> file.mtime])
             session_id == UnwrapOr(acc.session_id, file.stem)
             project_path == UnwrapOr(acc.project_path, <<".">>)
             title == UnwrapOr(path_basename(project_path),
                               CodexSessionLabel \o truncate_text(session_id, 8))
         IN Some([summary |-> [id |-> session_id,
                               provider_id |-> "codex",
                               project_path |-> project_path,
                               title |-> title,
                               last_active_at |-> UnwrapOr(acc.last_active_at,
                                                           DecimalString(clock))],
                  source |-> file,
                  sort_key |-> acc.sort_key])

\* filter_map over the scanned files
RECURSIVE codex_parse_all(_, _)
codex_parse_all(files, clock) ==
    IF files = << >> THEN << >>
    ELSE codex_parse_thread_file(Head(files), clock) \o codex_parse_all(Tail(files), clock)

codex_scan_thread_records(clock) ==
    sort_by_key_reverse(
        codex_parse_all(codex_collect_jsonl_files(roots["codex"], codexFiles), clock))

\* A lookup that reports a missing thread as a transient upstream failure.
codex_find_thread_record_retryable(thread_id, clock) ==
    LET found == Find(codex_scan_thread_records(clock),
                      LAMBDA record : record.summary.id = thread_id)
    IN IF IsSome(found) THEN Ok(Unwrap(found))
       ELSE provider_error("UpstreamUnavailable", TRUE)

codex_find_thread_record(thread_id, clock) ==
    LET found == Find(codex_scan_thread_records(clock),
                      LAMBDA record : record.summary.id = thread_id)
    IN IF IsSome(found) THEN Ok(Unwrap(found))
       ELSE provider_error("InvalidResponse", FALSE)

codex_get_thread_runtime_state(thread_id, clock) ==
    LET thread_record == codex_find_thread_record(thread_id, clock)
    IN IF ~thread_record.ok THEN thread_record
       ELSE Ok(codex_load_thread_runtime_state(thread_record.value.source, clock))

-----------------------------------------------------------------------------
(* OpenCode: the three-tier store *)

\* JSON values whose type the code tells apart
JString(s) == [k |-> "string", s |-> s]
JNull == [k |-> "null"]
as_str(value) == IF value.k = "string" THEN Some(value.s) ELSE None

\* storage/project/<id>.json
OcProjectFile(id, worktree) ==
    [ext |-> "json", enc |-> "json", id |-> id, worktree |-> worktree]

\* storage/session/<project>/<stem>.json
OcSessionFile(stem, id, directory, title) ==
    [stem |-> stem, ext |-> "json", enc |-> "json", mtime |-> T0,
     id |-> id, parentID |-> None, parentId |-> None, projectID |-> None,
     directory |-> directory, title |-> title,
     time_created |-> None, time_updated |-> None]

\* storage/message/<dir>/<stem>.json
OcMessageFile(dir, stem, role, created, completed) ==
    [dir |-> dir, stem |-> stem, ext |-> "json", enc |-> "json", mtime |-> T0,
     id |-> Some(stem), role |-> role,
     time_created |-> created, time_completed |-> completed,
     summary_title |-> None]

\* storage/part/<dir>/<name>.json; file names are compared as their numbers
OcPartFile(dir, name, type, time_start, time_end) ==
    [dir |-> dir, sort_key |-> name, ext |-> "json", enc |-> "json",
     type |-> type, text |-> None, tool |-> None, state |-> None,
     time_start |-> time_start, time_end |-> time_end]

opencode_extract_timestamp_ms(value) ==
    IF IsNone(value) THEN None
    ELSE LET v == Unwrap(value) IN
         CASE v.k = "number" -> Some(normalize_epoch(v.int))
           [] v.k = "numstr" -> Some(normalize_epoch(v.int))
           [] OTHER -> None

opencode_collect_json_files_recursive(root, files) ==
    IF root # "ok" THEN << >>
    ELSE SelectSeq(files, LAMBDA f : f.ext = "json")

\* HashMap::get after the inserts of load_project_worktree_map: the last file
\* read that carries the id.
opencode_project_worktree(projects, id) ==
    LET hits == { i \in 1..Len(projects) :
                    /\ projects[i].ext = "json"
                    /\ projects[i].enc = "json"
                    /\ projects[i].id = Some(id)
                    /\ IsSome(projects[i].worktree) }
    IN IF hits = {} THEN None
       ELSE projects[CHOOSE i \in hits : \A j \in hits : j <= i].worktree

OpenCodeSessionLabel ==
    <<"O", "p", "e", "n", "C", "o", "d", "e", " ", "s", "e", "s", "s", "i", "o", "n", " ">>

opencode_session_parent_id(parsed) ==
    LET raw == OrElse(parsed.parentID, parsed.parentId)
        text == IF IsNone(raw) THEN None ELSE as_str(Unwrap(raw))
        trimmed == IF IsNone(text) THEN None ELSE Some(Trim(Unwrap(text)))
    IN IF IsSome(trimmed) /\ Unwrap(trimmed) # << >> THEN trimmed ELSE None

\* A resolution that lets the project directory win over the session's title.
opencode_session_title_directory_first(parsed, project_path, session_id) ==
    LET trimmed == IF IsNone(parsed.title) THEN None ELSE Some(Trim(Unwrap(parsed.title)))
        official == IF IsSome(trimmed) /\ Unwrap(trimmed) # << >> THEN trimmed ELSE None
    IN UnwrapOr(OrElse(path_basename(project_path), official),
                OpenCodeSessionLabel \o truncate_text(session_id, 8))

opencode_session_title(parsed, project_path, session_id) ==
    LET trimmed == IF IsNone(parsed.title) THEN None ELSE Some(Trim(Unwrap(parsed.title)))
        official == IF IsSome(trimmed) /\ Unwrap(trimmed) # << >> THEN trimmed ELSE None
    IN UnwrapOr(OrElse(official, path_basename(project_path)),
                OpenCodeSessionLabel \o truncate_text(session_id, 8))

opencode_parse_session_file(file, projects, clock) ==
    IF file.enc # "json" THEN None
    ELSE IF IsSome(opencode_session_parent_id(file)) THEN None
    ELSE LET session_id == UnwrapOr(file.id, file.stem)
             project_path ==
                 UnwrapOr(OrElse(file.directory,
                                 IF IsNone(file.projectID) THEN None
                                 ELSE opencode_project_worktree(projects, Unwrap(file.projectID))),
                          <<".">>)
             created_ms == opencode_extract_timestamp_ms(file.time_created)
             updated_ms == opencode_extract_timestamp_ms(file.time_updated)
         IN Some([summary |-> [id |-> session_id,
                               provider_id |-> "opencode",
                               project_path |-> project_path,
                               title |-> opencode_session_title(file, project_path, session_id),
                               last_active_at |->
                                   DecimalString(UnwrapOr(OrElse(updated_ms, created_ms), clock))],
                  session_id |-> session_id,
                  sort_key |-> UnwrapOr(OrElse(updated_ms, created_ms), file.mtime)])

RECURSIVE opencode_parse_all_sessions(_, _, _)
opencode_parse_all_sessions(files, projects, clock) ==
    IF files = << >> THEN << >>
    ELSE opencode_parse_session_file(Head(files), projects, clock)
            \o opencode_parse_all_sessions(Tail(files), projects, clock)

opencode_scan_thread_records(clock) ==
    sort_by_key_reverse(
        opencode_parse_all_sessions(
            opencode_collect_json_files_recursive(roots["opencode"], ocSessions),
            IF roots["opencode"] = "ok" THEN ocProjects ELSE << >>,
            clock))

opencode_find_thread_record(thread_id, clock) ==
    LET found == Find(opencode_scan_thread_records(clock),
                      LAMBDA record : record.summary.id = thread_id)
    IN IF IsSome(found) THEN Ok(Unwrap(found))
       ELSE provider_error("InvalidResponse", FALSE)

opencode_parse_message_file(file) ==
    IF file.enc # "json" THEN None
    ELSE LET created_ms == opencode_extract_timestamp_ms(file.time_created)
             completed_ms == opencode_extract_timestamp_ms(file.time_completed)
             timestamp_ms == OrElse(completed_ms, created_ms)
         IN Some([id |-> UnwrapOr(file.id, file.stem),
                  role |-> UnwrapOr(file.role, "assistant"),
                  created_ms |-> created_ms,
                  completed_ms |-> completed_ms,
                  timestamp_ms |-> timestamp_ms,
                  sort_key |-> UnwrapOr(timestamp_ms, file.mtime),
                  summary_title |-> file.summary_title])

RECURSIVE opencode_parse_all_messages(_)
opencode_parse_all_messages(files) ==
    IF files = << >> THEN << >>
    ELSE opencode_parse_message_file(Head(files)) \o opencode_parse_all_messages(Tail(files))

\* The message nodes of a session in the order the loops visit them.
opencode_message_nodes(session_id) ==
    sort_by_key(opencode_parse_all_messages(
        SelectSeq(ocMessages, LAMBDA f : f.dir = session_id /\ f.ext = "json")))

\* The readable part files of a message, sorted by file name.
opencode_part_files(message_id) ==
    SelectSeq(sort_by_key(SelectSeq(ocParts, LAMBDA f : f.dir = message_id /\ f.ext = "json")),
              LAMBDA f : f.enc = "json")

opencode_part_kind(part) ==
    IF IsNone(part.type) THEN None
    ELSE CASE Unwrap(part.type) = "reasoning" -> Some("AgentReasoning")
           [] Unwrap(part.type) = "tool" -> Some("AgentTool")
           [] Unwrap(part.type) = "text" -> Some("AgentMessage")
           [] Unwrap(part.type) = "step-finish" -> Some("TurnCompleted")
           [] OTHER -> None

RECURSIVE opencode_part_events(_, _)
opencode_part_events(files, fallback_ts) ==
    IF files = << >> THEN << >>
    ELSE LET part == Head(files)
             kind == opencode_part_kind(part)
             timestamp_ms ==
                 OrElse(opencode_extract_timestamp_ms(OrElse(part.time_end, part.time_start)),
                        fallback_ts)
         IN (IF IsSome(kind) THEN << <<Unwrap(kind), timestamp_ms>> >> ELSE << >>)
                \o opencode_part_events(Tail(files), fallback_ts)

opencode_load_part_event_kinds(message_id, fallback_ts) ==
    opencode_part_events(opencode_part_files(message_id), fallback_ts)

\* The inner loop over the part events of one assistant message.
RECURSIVE opencode_apply_part_events(_, _)
opencode_apply_part_events(events, acc) ==
    IF events = << >> THEN acc
    ELSE opencode_apply_part_events(Tail(events),
            [acc EXCEPT !.last_kind = Some(Head(events)[1]),
                        !.last_event_at_ms = IF IsSome(Head(events)[2])
                                             THEN Head(events)[2] ELSE @])

\* What an assistant message that has not completed does to the in-progress mark.
opencode_mark_in_progress(node, fallback_ts, latest_in_progress_assistant_at) ==
    IF IsNone(node.completed_ms) /\ IsSome(OrElse(node.created_ms, fallback_ts))
    THEN OrElse(node.created_ms, fallback_ts)
    ELSE latest_in_progress_assistant_at

\* The loop of load_thread_runtime_state over the sorted nodes.
RECURSIVE opencode_runtime_loop(_, _)
opencode_runtime_loop(nodes, acc) ==
    IF nodes = << >> THEN acc
    ELSE LET node == Head(nodes)
             fallback_ts == OrElse(node.timestamp_ms, node.created_ms)
         IN IF node.role = "user"
            THEN opencode_runtime_loop(Tail(nodes),
                    [acc EXCEPT !.last_kind = Some("UserMessage"),
                                !.last_event_at_ms = IF IsSome(fallback_ts)
                                                     THEN fallback_ts ELSE @])
            ELSE IF node.role = "assistant"
            THEN LET part_events == opencode_load_part_event_kinds(node.id, fallback_ts)
                     acc1 == IF part_events = << >>
                             THEN [acc EXCEPT !.last_kind = Some("AgentMessage"),
                                              !.last_event_at_ms = IF IsSome(fallback_ts)
                                                                   THEN fallback_ts ELSE @]
                             ELSE opencode_apply_part_events(part_events, acc)
                 IN opencode_runtime_loop(Tail(nodes),
                        [acc1 EXCEPT !.latest_in_progress_assistant_at =
                            opencode_mark_in_progress(node, fallback_ts, @)])
            ELSE opencode_runtime_loop(Tail(nodes), acc)

opencode_kind_as_str(kind) ==
    CASE kind = "UserMessage" -> "user_message"
      [] kind = "AgentReasoning" -> "agent_reasoning"
      [] kind = "AgentTool" -> "agent_tool"
      [] kind = "AgentMessage" -> "agent_message"
      [] kind = "TurnCompleted" -> "turn_completed"

opencode_load_thread_runtime_state(session_id, clock) ==
    LET acc == opencode_runtime_loop(opencode_message_nodes(session_id),
                    [last_kind |-> None, last_event_at_ms |-> None,
                     latest_in_progress_assistant_at |-> None])
    IN [agent_answering |->
            IF IsNone(acc.latest_in_progress_assistant_at) THEN FALSE
            ELSE clock - Unwrap(acc.latest_in_progress_assistant_at)
                    <= OPENCODE_AGENT_ACTIVITY_WINDOW_MS,
        last_event_kind |-> IF IsSome(acc.last_kind)
                            THEN Some(opencode_kind_as_str(Unwrap(acc.last_kind))) ELSE None,
        last_event_at_ms |-> acc.last_event_at_ms]

opencode_get_thread_runtime_state(thread_id, clock) ==
    LET thread_record == opencode_find_thread_record(thread_id, clock)
    IN IF ~thread_record.ok THEN thread_record
       ELSE Ok(opencode_load_thread_runtime_state(thread_id, clock))

-----------------------------------------------------------------------------
(* Text of messages: sequences of tokens, a token being one character or one
   piece of markup that the code searches for as a whole *)

Contains(s, tok) == \E i \in 1..Len(s) : s[i] = tok

\* str::find of a token at or after position `from`; 0 when there is none.
IndexOf(s, tok, from) ==
    LET hits == { i \in from..Len(s) : s[i] = tok }
    IN IF hits = {} THEN 0 ELSE CHOOSE i \in hits : \A j \in hits : i <= j

RECURSIVE Join(_, _)
Join(chunks, sep) ==
    IF chunks = << >> THEN << >>
    ELSE IF Len(chunks) = 1 THEN chunks[1]
    ELSE chunks[1] \o sep \o Join(Tail(chunks), sep)

\* The pieces of s between the separators, empty pieces included.
RECURSIVE SplitOn(_, _, _)
SplitOn(s, seps, current) ==
    IF s = << >> THEN <<current>>
    ELSE IF Head(s) \in seps THEN <<current>> \o SplitOn(Tail(s), seps, << >>)
    ELSE SplitOn(Tail(s), seps, Append(current, Head(s)))

\* str::split_whitespace
split_whitespace(s) ==
    SelectSeq(SplitOn(s, {" ", "\n", "\t"}, << >>), LAMBDA piece : piece # << >>)

\* str::lines: a final empty piece is no line.
str_lines(s) ==
    LET pieces == SplitOn(s, {"\n"}, << >>)
    IN IF pieces[Len(pieces)] = << >> THEN SubSeq(pieces, 1, Len(pieces) - 1) ELSE pieces

\* Iterator::take
Take(seq, n) == IF Len(seq) <= n THEN seq ELSE SubSeq(seq, 1, n)

Map(seq, F(_)) == [ i \in 1..Len(seq) |-> F(seq[i]) ]

normalize_inline_text(raw) == Join(split_whitespace(raw), <<" ">>)

Esc == "\\x1b"
AsciiAlphabetic ==
    {"a", "b", "c", "d", "e", "f", "g", "h", "i", "j", "k", "l", "m",
     "n", "o", "p", "q", "r", "s", "t", "u", "v", "w", "x", "y", "z",
     "A", "B", "C", "D", "E", "F", "G", "H", "I", "J", "K", "L", "M",
     "N", "O", "P", "Q", "R", "S", "T", "U", "V", "W", "X", "Y", "Z"}

RECURSIVE strip_ansi_escapes_from(_, _)
strip_ansi_escapes_from(raw, in_escape) ==
    IF raw = << >> THEN << >>
    ELSE IF in_escape
         THEN strip_ansi_escapes_from(Tail(raw),
                  ~(Head(raw) \in AsciiAlphabetic \/ Head(raw) = "~"))
    ELSE IF Head(raw) = Esc THEN strip_ansi_escapes_from(Tail(raw), TRUE)
    ELSE <<Head(raw)>> \o strip_ansi_escapes_from(Tail(raw), FALSE)

strip_ansi_escapes(raw) == strip_ansi_escapes_from(raw, FALSE)

\* The lines of a tool output that are kept: at most max_lines non-blank
\* lines, each trimmed and cut to max_chars.
output_lines(raw, max_lines, max_chars) ==
    Map(Take(SelectSeq(str_lines(strip_ansi_escapes(raw)), LAMBDA line : Trim(line) # << >>),
             max_lines),
        LAMBDA line : truncate_text(Trim(line), max_chars))

\* "OUT <line>" for one line, "OUT\n<lines>" for several, nothing for none.
render_output_lines(kept) ==
    IF kept = << >> THEN None
    ELSE IF Len(kept) = 1 THEN Some(<<"OUT", " ">> \o kept[1])
    ELSE Some(<<"OUT", "\n">> \o Join(kept, <<"\n">>))

MESSAGE_KIND_TEXT == "text"
MESSAGE_KIND_TOOL == "tool"

text_record(role, content, timestamp_ms) ==
    [role |-> role, content |-> content, timestamp_ms |-> timestamp_ms,
     kind |-> MESSAGE_KIND_TEXT, collapsed |-> FALSE]

\* A constructor that leaves tool records expanded.
tool_record_expanded(role, content, timestamp_ms) ==
    [role |-> role, content |-> content, timestamp_ms |-> timestamp_ms,
     kind |-> MESSAGE_KIND_TOOL, collapsed |-> FALSE]

tool_record(role, content, timestamp_ms) ==
    [role |-> role, content |-> content, timestamp_ms |-> timestamp_ms,
     kind |-> MESSAGE_KIND_TOOL, collapsed |-> TRUE]

\* JSON values
JArray(items) == [k |-> "array", items |-> items]
\* a content block: the fields the code reads with as_str / as_bool are given
\* as Options of the value read (None: absent or of another type)
JBlock(type, text) ==
    [k |-> "object", type |-> type, text |-> text, name |-> None,
     input |-> None, content |-> None, is_error |-> None]
\* the input object of a tool call
JToolInput(pattern, description, command) ==
    [k |-> "object", pattern |-> pattern, description |-> description,
     command |-> command, path |-> None, query |-> None, url |-> None]

-----------------------------------------------------------------------------
(* Claude: messages of a transcript *)

LocalCommandTag == "<local-command-"
CommandArgsTag == "<command-args>"

claude_extract_tag_content(input, open_tag, close_tag) ==
    LET open == IndexOf(input, open_tag, 1)
        start == open + 1
        end == IndexOf(input, close_tag, start)
    IN IF open = 0 \/ end = 0 THEN None
       ELSE LET content == Trim(SubSeq(input, start, end - 1))
            IN IF content = << >> THEN None ELSE Some(content)

\* A sanitizer that looks for the command-message wrapper first.
claude_sanitize_cli_markup_text_message_first(raw) ==
    LET trimmed == Trim(raw)
        command_name == claude_extract_tag_content(trimmed, "<command-name>", "</command-name>")
        command_message ==
            claude_extract_tag_content(trimmed, "<command-message>", "</command-message>")
    IN IF trimmed = << >> THEN None
       ELSE IF Contains(trimmed, LocalCommandTag) THEN None
       ELSE IF IsSome(command_message) /\ Trim(Unwrap(command_message)) # << >>
            THEN command_message
       ELSE IF IsSome(command_name) /\ Trim(Unwrap(command_name)) # << >> THEN command_name
       ELSE IF Contains(trimmed, CommandArgsTag) THEN None
       ELSE Some(trimmed)

claude_sanitize_cli_markup_text(raw) ==
    LET trimmed == Trim(raw)
        command_name == claude_extract_tag_content(trimmed, "<command-name>", "</command-name>")
        command_message ==
            claude_extract_tag_content(trimmed, "<command-message>", "</command-message>")
    IN IF trimmed = << >> THEN None
       ELSE IF Contains(trimmed, LocalCommandTag) THEN None
       ELSE IF IsSome(command_name) /\ Trim(Unwrap(command_name)) # << >> THEN command_name
       ELSE IF IsSome(command_message) /\ Trim(Unwrap(command_message)) # << >>
            THEN command_message
       ELSE IF Contains(trimmed, CommandArgsTag) THEN None
       ELSE Some(trimmed)

RECURSIVE claude_extract_text(_)
claude_extract_text(value) ==
    CASE value.k = "string" -> value.s
      [] value.k = "array" ->
            Join(SelectSeq(Map(value.items, LAMBDA item : claude_extract_text(item)),
                           LAMBDA text : Trim(text) # << >>),
                 <<"\n">>)
      [] value.k = "object" ->
            IF IsSome(value.text) THEN Unwrap(value.text)
            ELSE IF IsSome(value.content) THEN claude_extract_text(Unwrap(value.content))
            ELSE << >>
      [] OTHER -> << >>

claude_normalize_tool_result_text(raw) == render_output_lines(output_lines(raw, 8, 220))

claude_extract_tool_input_summary(value) ==
    CASE value.k = "object" ->
            LET description == IF IsSome(value.description)
                               THEN Some(normalize_inline_text(Unwrap(value.description)))
                               ELSE None
            IN IF IsSome(value.pattern)
               THEN Some(<<"pattern: ", "\"">> \o Trim(Unwrap(value.pattern)) \o <<"\"">>)
               ELSE IF IsSome(value.command)
               THEN LET command_line ==
                            truncate_text(normalize_inline_text(Unwrap(value.command)), 220)
                    IN IF IsSome(description)
                       THEN Some(Unwrap(description) \o <<"\n", "IN", " ">> \o command_line)
                       ELSE Some(<<"IN", " ">> \o command_line)
               ELSE IF IsSome(description) THEN description
               ELSE IF IsSome(value.path)
               THEN Some(<<"path: ">> \o truncate_text(Trim(Unwrap(value.path)), 80))
               ELSE IF IsSome(value.query)
               THEN Some(<<"query: ">> \o truncate_text(Trim(Unwrap(value.query)), 100))
               ELSE IF IsSome(value.url)
               THEN Some(<<"url: ">> \o truncate_text(Trim(Unwrap(value.url)), 100))
               ELSE None
      [] value.k = "string" -> Some(truncate_text(normalize_inline_text(value.s), 100))
      [] OTHER -> None

\* "<tool_name> <detail>" or the tool name alone
claude_tool_line(tool_name, detail) ==
    IF IsSome(detail) THEN Some(tool_name \o <<" ">> \o Unwrap(detail)) ELSE Some(tool_name)

claude_summarize_tool_use_block(object) ==
    LET tool_name == IF IsSome(object.name) /\ Trim(Unwrap(object.name)) # << >>
                     THEN Trim(Unwrap(object.name)) ELSE <<"Tool">>
        detail == IF IsSome(object.input)
                  THEN claude_extract_tool_input_summary(Unwrap(object.input)) ELSE None
    IN claude_tool_line(tool_name, detail)

claude_summarize_tool_result_block(object) ==
    LET is_error == UnwrapOr(object.is_error, FALSE)
        content == IF IsSome(object.content) THEN claude_extract_text(Unwrap(object.content))
                   ELSE << >>
        normalized == claude_normalize_tool_result_text(content)
    IN IF IsNone(normalized) THEN None
       ELSE IF is_error THEN Some(<<"Tool error", "\n">> \o Unwrap(normalized))
       ELSE normalized

claude_summarize_server_tool_use_block(object) ==
    LET tool_name == UnwrapOr(object.name, <<"ServerTool">>)
        from_input == IF IsSome(object.input)
                      THEN claude_extract_tool_input_summary(Unwrap(object.input)) ELSE None
        detail == IF IsSome(from_input) THEN from_input
                  ELSE IF IsSome(object.text) THEN Some(normalize_inline_text(Unwrap(object.text)))
                  ELSE None
    IN claude_tool_line(tool_name, detail)

\* Option<String> -> Vec<MessageRecord> through one of the record constructors
claude_records_of(content, Record(_, _, _), role, timestamp_ms) ==
    IF IsSome(content) THEN <<Record(role, Unwrap(content), timestamp_ms)>> ELSE << >>

RECURSIVE claude_extract_message_records(_, _, _)
RECURSIVE claude_extract_message_records_from_block(_, _, _)
RECURSIVE claude_extract_message_records_from_items(_, _, _)

\* The loop over the items of an array, each item handled as a block.
claude_extract_message_records_from_items(role, items, timestamp_ms) ==
    IF items = << >> THEN << >>
    ELSE claude_extract_message_records_from_block(role, Head(items), timestamp_ms)
         \o claude_extract_message_records_from_items(role, Tail(items), timestamp_ms)

claude_extract_message_records_from_block(role, value, timestamp_ms) ==
    CASE value.k = "string" ->
            claude_records_of(claude_sanitize_cli_markup_text(value.s),
                              text_record, role, timestamp_ms)
      [] value.k = "object" ->
            LET text == IF IsSome(value.text)
                        THEN claude_sanitize_cli_markup_text(Unwrap(value.text)) ELSE None
            IN CASE value.type \in {Some("thinking"), Some("redacted_thinking")} -> << >>
                 [] value.type = Some("text") ->
                        claude_records_of(text, text_record, role, timestamp_ms)
                 [] value.type = Some("tool_use") ->
                        claude_records_of(claude_summarize_tool_use_block(value),
                                          tool_record, role, timestamp_ms)
                 [] value.type = Some("tool_result") ->
                        claude_records_of(claude_summarize_tool_result_block(value),
                                          tool_record, role, timestamp_ms)
                 [] value.type = Some("server_tool_use") ->
                        claude_records_of(claude_summarize_server_tool_use_block(value),
                                          tool_record, role, timestamp_ms)
                 [] OTHER ->
                        IF IsSome(text) THEN <<text_record(role, Unwrap(text), timestamp_ms)>>
                        ELSE IF IsSome(value.content)
                        THEN claude_extract_message_records(role, Unwrap(value.content),
                                                            timestamp_ms)
                        ELSE << >>
      [] value.k = "array" ->
            claude_extract_message_records_from_items(role, value.items, timestamp_ms)
      [] OTHER -> << >>

claude_extract_message_records(role, value, timestamp_ms) ==
    CASE value.k = "string" ->
            claude_records_of(claude_sanitize_cli_markup_text(value.s),
                              text_record, role, timestamp_ms)
      [] value.k = "array" ->
            claude_extract_message_records_from_items(role, value.items, timestamp_ms)
      [] value.k = "object" ->
            claude_extract_message_records_from_block(role, value, timestamp_ms)
      [] OTHER -> << >>

\* One line of a Claude transcript.
ClaudeMessage(role, content) == [role |-> role, content |-> content]

ClaudeRecord(sessionId, cwd, timestamp, message) ==
    [enc |-> "json", sessionId |-> sessionId, cwd |-> cwd, timestamp |-> timestamp,
     isMeta |-> None, isSidechain |-> None, message |-> message]

\* (the string kept for last_active_at, the millisecond value)
claude_extract_timestamp(parsed) ==
    IF IsNone(parsed.timestamp) THEN None
    ELSE LET v == Unwrap(parsed.timestamp) IN
         CASE v.k \in {"number", "numstr"} ->
                Some([str |-> DecimalString(normalize_epoch(v.int)),
                      ms |-> normalize_epoch(v.int)])
           [] v.k \in {"rfc3339", "text"} -> Some([str |-> NonNumericString, ms |-> 0])
           [] OTHER -> None

claude_parse_timestamp_ms(parsed) ==
    LET extracted == claude_extract_timestamp(parsed)
    IN IF IsSome(extracted) /\ Unwrap(extracted).ms > 0 THEN Some(Unwrap(extracted).ms)
       ELSE None

\* The records of one parsed line, as the body of the loop of
\* load_thread_messages yields them.
claude_line_messages(parsed) ==
    IF parsed.isMeta = Some(TRUE) \/ parsed.isSidechain = Some(TRUE) THEN << >>
    ELSE IF IsNone(parsed.message) THEN << >>
    ELSE LET message == Unwrap(parsed.message)
             role == UnwrapOr(message.role, "unknown")
             timestamp_ms == claude_parse_timestamp_ms(parsed)
         IN IF IsNone(message.content) THEN << >>
            ELSE claude_extract_message_records(role, Unwrap(message.content), timestamp_ms)

RECURSIVE claude_messages_loop(_)
claude_messages_loop(file_lines) ==
    IF file_lines = << >> THEN << >>
    ELSE IF Head(file_lines).enc # "json" THEN claude_messages_loop(Tail(file_lines))
    ELSE claude_line_messages(Head(file_lines)) \o claude_messages_loop(Tail(file_lines))

claude_load_thread_messages(file) ==
    IF ~file.readable THEN << >>
    ELSE claude_messages_loop(lines_map_while_ok(file.lines))

-----------------------------------------------------------------------------
(* Claude: scanning and listing *)

claude_collect_jsonl_files(root, files) ==
    IF root # "ok" THEN << >>
    ELSE SelectSeq(files, LAMBDA f : f.ext = "jsonl")

\* The loop of parse_thread_file.
RECURSIVE claude_parse_thread_loop(_, _)
claude_parse_thread_loop(file_lines, acc) ==
    IF file_lines = << >> THEN acc
    ELSE LET parsed == Head(file_lines) IN
         IF parsed.enc # "json" THEN claude_parse_thread_loop(Tail(file_lines), acc)
         ELSE LET acc1 == IF IsNone(acc.session_id)
                          THEN [acc EXCEPT !.session_id = parsed.sessionId] ELSE acc
                  acc2 == IF IsNone(acc.project_path)
                          THEN [acc1 EXCEPT !.project_path = parsed.cwd] ELSE acc1
                  ts == claude_extract_timestamp(parsed)
                  acc3 == IF IsNone(ts) THEN acc2
                          ELSE [acc2 EXCEPT
                                  !.created_at = IF IsNone(@) THEN Some(Unwrap(ts).str) ELSE @,
                                  !.last_active_at = Some(Unwrap(ts).str),
                                  !.sort_key = IF Unwrap(ts).ms > 0
                                               THEN Max(@, Unwrap(ts).ms) ELSE @]
              IN claude_parse_thread_loop(Tail(file_lines), acc3)

ClaudeSessionLabel == <<"C", "l", "a", "u", "d", "e", " ", "s", "e", "s", "s", "i", "o", "n", " ">>

claude_parse_thread_file(file, clock) ==
    IF StartsWith(file.stem, <<"agent-">>) THEN None
    ELSE IF ~file.readable THEN None
    ELSE LET acc == claude_parse_thread_loop(lines_map_while_ok(file.lines),
                        [session_id |-> None, project_path |-> None, created_at |-> None,
                         last_active_at |-> None, sort_key |-> file.mtime])
             session_id == UnwrapOr(acc.session_id, file.stem)
             project_path == UnwrapOr(acc.project_path, <<".">>)
             title == UnwrapOr(path_basename(project_path),
                               ClaudeSessionLabel \o truncate_text(session_id, 8))
         IN Some([summary |-> [id |-> session_id,
                               provider_id |-> "claude_code",
                               project_path |-> project_path,
                               title |-> title,
                               last_active_at |->
                                   UnwrapOr(OrElse(acc.last_active_at, acc.created_at),
                                            DecimalString(clock))],
                  source |-> file,
                  sort_key |-> acc.sort_key])

RECURSIVE claude_parse_all(_, _)
claude_parse_all(files, clock) ==
    IF files = << >> THEN << >>
    ELSE claude_parse_thread_file(Head(files), clock) \o claude_parse_all(Tail(files), clock)

\* A scan that leaves the records in the order of the directory.
claude_scan_thread_records_unsorted(clock) ==
    claude_parse_all(claude_collect_jsonl_files(roots["claude_code"], claudeFiles), clock)

claude_scan_thread_records(clock) ==
    sort_by_key_reverse(
        claude_parse_all(claude_collect_jsonl_files(roots["claude_code"], claudeFiles), clock))

claude_find_thread_record(thread_id, clock) ==
    LET found == Find(claude_scan_thread_records(clock),
                      LAMBDA record : record.summary.id = thread_id)
    IN IF IsSome(found) THEN Ok(Unwrap(found))
       ELSE provider_error("InvalidResponse", FALSE)

claude_get_thread_messages(thread_id, clock) ==
    LET thread_record == claude_find_thread_record(thread_id, clock)
    IN IF ~thread_record.ok THEN thread_record
       ELSE Ok(claude_load_thread_messages(thread_record.value.source))

\* records.retain(|record| record.summary.project_path.starts_with(filter))
\* A filter that compares whole path components: "/p/x" keeps "/p/x" and
\* "/p/x/y" but not "/p/xy".
retain_project_by_component(records, project_path) ==
    IF IsNone(project_path) THEN records
    ELSE SelectSeq(records,
                   LAMBDA record :
                       \/ record.summary.project_path = Unwrap(project_path)
                       \/ StartsWith(record.summary.project_path,
                                     Unwrap(project_path) \o <<"/">>))

retain_project(records, project_path) ==
    IF IsNone(project_path) THEN records
    ELSE SelectSeq(records,
                   LAMBDA record : StartsWith(record.summary.project_path, Unwrap(project_path)))

\* The text shown under a thread: its last non-blank text record, else its
\* last non-blank record.
build_last_message_preview(messages) ==
    LET texts == { i \in 1..Len(messages) :
                     messages[i].kind = MESSAGE_KIND_TEXT /\ Trim(messages[i].content) # << >> }
        any == { i \in 1..Len(messages) : Trim(messages[i].content) # << >> }
    IN IF any = {} THEN None
       ELSE LET message == messages[CHOOSE i \in (IF texts # {} THEN texts ELSE any) :
                                        \A j \in (IF texts # {} THEN texts ELSE any) : j <= i]
                normalized == normalize_inline_text(message.content)
            IN IF normalized = << >> THEN None ELSE Some(truncate_text(normalized, 140))

claude_list_threads(project_path, clock) ==
    Ok(Map(sort_by_key_reverse(retain_project(claude_scan_thread_records(clock), project_path)),
           LAMBDA record : record.summary))

\* A listing that fails when the projects directory cannot be read.
claude_list_thread_overviews_strict(project_path, clock) ==
    IF roots["claude_code"] # "ok" THEN provider_error("UpstreamUnavailable", TRUE)
    ELSE Ok(Map(sort_by_key_reverse(retain_project(claude_scan_thread_records(clock),
                                                   project_path)),
                LAMBDA record :
                    [summary |-> record.summary,
                     last_message_preview |->
                         build_last_message_preview(claude_load_thread_messages(record.source))]))

claude_list_thread_overviews(project_path, clock) ==
    Ok(Map(sort_by_key_reverse(retain_project(claude_scan_thread_records(clock), project_path)),
           LAMBDA record :
               [summary |-> record.summary,
                last_message_preview |->
                    build_last_message_preview(claude_load_thread_messages(record.source))]))

-----------------------------------------------------------------------------
(* Codex: messages and listing *)

\* A string field that may hold JSON: its text, and the object that
\* serde_json::from_str makes of it (None: the text is no JSON object).
JsonText(raw, parsed) == [raw |-> raw, parsed |-> parsed]
JsonObject(command, output) == [command |-> command, output |-> output]

RECURSIVE codex_extract_codex_message_text(_)
RECURSIVE codex_extract_codex_content_text(_)
\* The non-blank texts of the items of an array.
codex_text_chunks(items) ==
    Map(SelectSeq(items,
                  LAMBDA item : /\ IsSome(codex_extract_codex_content_text(item))
                                /\ Trim(Unwrap(codex_extract_codex_content_text(item))) # << >>),
        LAMBDA item : Unwrap(codex_extract_codex_content_text(item)))

codex_extract_codex_message_text(value) ==
    CASE value.k = "array" ->
            IF codex_text_chunks(value.items) = << >> THEN None
            ELSE Some(Join(codex_text_chunks(value.items), <<"\n", "\n">>))
      [] value.k = "string" -> Some(value.s)
      [] value.k = "object" -> codex_extract_codex_content_text(value)
      [] OTHER -> None

codex_extract_codex_content_text(value) ==
    CASE value.k = "string" -> Some(value.s)
      [] value.k = "object" ->
            IF IsSome(value.text) THEN value.text
            ELSE IF IsSome(value.content)
            THEN codex_extract_codex_message_text(Unwrap(value.content))
            ELSE None
      [] value.k = "array" ->
            IF codex_text_chunks(value.items) = << >> THEN None
            ELSE Some(Join(codex_text_chunks(value.items), <<"\n">>))
      [] OTHER -> None

UserInstructionsTag == "<user_instructions>"
EnvironmentContextTag == "<environment_context>"

codex_sanitize_codex_text(raw) ==
    LET trimmed == Trim(raw)
    IN IF trimmed = << >> THEN None
       ELSE IF StartsWith(trimmed, <<UserInstructionsTag>>)
               \/ StartsWith(trimmed, <<EnvironmentContextTag>>) THEN None
       ELSE Some(trimmed)

codex_render_command(value) ==
    CASE value.k = "string" -> value.s
      [] value.k = "array" ->
            Join(Map(SelectSeq(value.items, LAMBDA item : item.k = "string"),
                     LAMBDA item : item.s),
                 <<" ">>)
      [] OTHER -> << >>

codex_summarize_function_call(name, arguments) ==
    LET rendered == IF /\ name = <<"shell">>
                       /\ IsSome(arguments.parsed)
                       /\ IsSome(Unwrap(arguments.parsed).command)
                    THEN codex_render_command(Unwrap(Unwrap(arguments.parsed).command))
                    ELSE << >>
        normalized == normalize_inline_text(arguments.raw)
    IN IF rendered # << >> THEN <<"Shell", "\n", "IN", " ">> \o truncate_text(rendered, 260)
       ELSE IF normalized = << >> THEN name
       ELSE name \o <<"\n", "IN", " ">> \o truncate_text(normalized, 260)

codex_summarize_function_output(raw) ==
    LET output == IF IsSome(raw.parsed) /\ IsSome(Unwrap(raw.parsed).output)
                  THEN Unwrap(Unwrap(raw.parsed).output) ELSE raw.raw
    IN render_output_lines(output_lines(output, 8, 240))

codex_extract_response_item_messages(payload, timestamp_ms) ==
    CASE payload.type = Some("message") ->
            LET role == UnwrapOr(payload.role, "assistant")
                extracted == IF IsSome(payload.content)
                             THEN codex_extract_codex_message_text(Unwrap(payload.content))
                             ELSE None
                text == IF IsSome(extracted) THEN codex_sanitize_codex_text(Unwrap(extracted))
                        ELSE None
            IN IF IsSome(text) THEN <<text_record(role, Unwrap(text), timestamp_ms)>> ELSE << >>
      [] payload.type = Some("function_call") ->
            <<tool_record("assistant",
                          codex_summarize_function_call(
                              UnwrapOr(payload.name, <<"Tool">>),
                              UnwrapOr(payload.arguments, JsonText(<< >>, None))),
                          timestamp_ms)>>
      [] payload.type = Some("function_call_output") ->
            LET content == codex_summarize_function_output(
                               UnwrapOr(payload.output, JsonText(<< >>, None)))
            IN IF IsSome(content) THEN <<tool_record("assistant", Unwrap(content), timestamp_ms)>>
               ELSE << >>
      [] OTHER -> << >>

\* The records of one parsed line, as the body of the loop of
\* load_thread_messages yields them.
codex_line_messages(parsed) ==
    IF parsed.type = Some("response_item") /\ IsSome(parsed.payload)
    THEN codex_extract_response_item_messages(Unwrap(parsed.payload),
                                              codex_parse_timestamp_ms(parsed.timestamp))
    ELSE << >>

\* A loop that puts the records of each later line in front.
RECURSIVE codex_messages_loop_newest_first(_)
codex_messages_loop_newest_first(file_lines) ==
    IF file_lines = << >> THEN << >>
    ELSE IF Head(file_lines).enc # "json" THEN codex_messages_loop_newest_first(Tail(file_lines))
    ELSE codex_messages_loop_newest_first(Tail(file_lines)) \o codex_line_messages(Head(file_lines))

RECURSIVE codex_messages_loop(_)
codex_messages_loop(file_lines) ==
    IF file_lines = << >> THEN << >>
    ELSE IF Head(file_lines).enc # "json" THEN codex_messages_loop(Tail(file_lines))
    ELSE codex_line_messages(Head(file_lines)) \o codex_messages_loop(Tail(file_lines))

codex_load_thread_messages(file) ==
    IF ~file.readable THEN << >>
    ELSE codex_messages_loop(lines_map_while_ok(file.lines))

codex_get_thread_messages(thread_id, clock) ==
    LET thread_record == codex_find_thread_record(thread_id, clock)
    IN IF ~thread_record.ok THEN thread_record
       ELSE Ok(codex_load_thread_messages(thread_record.value.source))

codex_list_threads(project_path, clock) ==
    Ok(Map(sort_by_key_reverse(retain_project(codex_scan_thread_records(clock), project_path)),
           LAMBDA record : record.summary))

codex_list_thread_overviews(project_path, clock) ==
    Ok(Map(sort_by_key_reverse(retain_project(codex_scan_thread_records(clock), project_path)),
           LAMBDA record :
               [summary |-> record.summary,
                last_message_preview |->
                    build_last_message_preview(codex_load_thread_messages(record.source))]))

-----------------------------------------------------------------------------
(* OpenCode: messages and listing *)

opencode_normalize_text(raw) ==
    IF Trim(raw) = << >> THEN None ELSE Some(Trim(raw))

\* serde_json::to_string of an object or an array: one piece of text
to_json_string(value) == IF value.k = "array" THEN <<"[..]">> ELSE <<"{..}">>

\* the input object of a tool part; command is any JSON value
OcToolInput(command, pattern, path) ==
    [k |-> "object", command |-> command, pattern |-> pattern, path |-> path]
OcToolState(input, output) == [input |-> input, output |-> output]

opencode_render_command(value) ==
    CASE value.k = "string" -> value.s
      [] value.k = "array" ->
            Join(Map(SelectSeq(value.items, LAMBDA item : item.k = "string"),
                     LAMBDA item : item.s),
                 <<" ">>)
      [] OTHER -> << >>

opencode_summarize_tool_input(value) ==
    CASE value.k = "string" ->
            IF IsNone(opencode_normalize_text(value.s)) THEN None
            ELSE Some(truncate_text(Unwrap(opencode_normalize_text(value.s)), 260))
      [] value.k = "object" ->
            IF IsSome(value.command) /\ opencode_render_command(Unwrap(value.command)) # << >>
            THEN Some(truncate_text(opencode_render_command(Unwrap(value.command)), 260))
            ELSE IF IsSome(value.pattern)
            THEN Some(<<"pattern: ">> \o truncate_text(Trim(Unwrap(value.pattern)), 180))
            ELSE IF IsSome(value.path)
            THEN Some(<<"path: ">> \o truncate_text(Trim(Unwrap(value.path)), 180))
            ELSE Some(truncate_text(to_json_string(value), 260))
      [] value.k = "array" -> Some(truncate_text(to_json_string(value), 260))
      [] value.k \in {"number", "bool"} -> Some(value.text)
      [] OTHER -> None

opencode_summarize_tool_output(value) ==
    LET raw == IF value.k = "string" THEN value.s
               ELSE IF value.k \in {"number", "bool"} THEN value.text
               ELSE IF value.k = "null" THEN <<"null">>
               ELSE to_json_string(value)
        kept == output_lines(raw, 10, 220)
    IN IF kept = << >> THEN None ELSE Some(Join(kept, <<"\n">>))

opencode_format_io_block(label, value) ==
    IF Contains(value, "\n") THEN <<label, "\n">> \o value ELSE <<label, " ">> \o value

opencode_summarize_tool_part(part) ==
    LET tool_name == IF IsSome(part.tool) /\ Trim(Unwrap(part.tool)) # << >>
                     THEN Trim(Unwrap(part.tool)) ELSE <<"Tool">>
        input == IF IsSome(part.state) THEN Unwrap(part.state).input ELSE None
        output == IF IsSome(part.state) THEN Unwrap(part.state).output ELSE None
        input_summary == IF IsSome(input) THEN opencode_summarize_tool_input(Unwrap(input))
                         ELSE None
        output_summary == IF IsSome(output) THEN opencode_summarize_tool_output(Unwrap(output))
                          ELSE None
    IN Some(Join(<<tool_name>>
                 \o (IF IsSome(input_summary)
                     THEN <<opencode_format_io_block("IN", Unwrap(input_summary))>> ELSE << >>)
                 \o (IF IsSome(output_summary)
                     THEN <<opencode_format_io_block("OUT", Unwrap(output_summary))>> ELSE << >>),
                 <<"\n">>))

\* The records of one part file, as the body of the loop of load_part_records
\* yields them.
opencode_part_records(parsed, role, timestamp_ms) ==
    LET part_type == UnwrapOr(parsed.type, "")
        content == IF IsSome(parsed.text) THEN opencode_normalize_text(Unwrap(parsed.text))
                   ELSE None
    IN CASE part_type = "text" ->
                IF IsSome(content) THEN <<text_record(role, Unwrap(content), timestamp_ms)>>
                ELSE << >>
         [] part_type = "reasoning" ->
                IF IsSome(content)
                THEN <<tool_record(role,
                                   <<"Reasoning", "\n">> \o truncate_text(Unwrap(content), 800),
                                   timestamp_ms)>>
                ELSE << >>
         [] part_type = "tool" ->
                <<tool_record(role, Unwrap(opencode_summarize_tool_part(parsed)), timestamp_ms)>>
         [] OTHER -> << >>

RECURSIVE opencode_part_records_loop(_, _, _)
opencode_part_records_loop(files, role, timestamp_ms) ==
    IF files = << >> THEN << >>
    ELSE opencode_part_records(Head(files), role, timestamp_ms)
         \o opencode_part_records_loop(Tail(files), role, timestamp_ms)

opencode_load_part_records(message_id, role, timestamp_ms) ==
    opencode_part_records_loop(opencode_part_files(message_id), role, timestamp_ms)

\* The records of one message node, as the body of the loop of
\* load_thread_messages yields them.
opencode_node_records(node) ==
    LET parts == opencode_load_part_records(node.id, node.role, node.timestamp_ms)
        summary_title == IF IsSome(node.summary_title)
                         THEN opencode_normalize_text(Unwrap(node.summary_title)) ELSE None
    IN IF parts = << >> /\ node.role = "user" /\ IsSome(summary_title)
       THEN <<text_record("user", Unwrap(summary_title), node.timestamp_ms)>>
       ELSE parts

RECURSIVE opencode_node_records_loop(_)
opencode_node_records_loop(nodes) ==
    IF nodes = << >> THEN << >>
    ELSE opencode_node_records(Head(nodes)) \o opencode_node_records_loop(Tail(nodes))

opencode_load_thread_messages(session_id) ==
    opencode_node_records_loop(opencode_message_nodes(session_id))

opencode_get_thread_messages(thread_id, clock) ==
    LET thread_record == opencode_find_thread_record(thread_id, clock)
    IN IF ~thread_record.ok THEN thread_record
       ELSE Ok(opencode_load_thread_messages(thread_id))

opencode_list_threads(project_path, clock) ==
    Ok(Map(sort_by_key_reverse(retain_project(opencode_scan_thread_records(clock), project_path)),
           LAMBDA record : record.summary))

opencode_list_thread_overviews(project_path, clock) ==
    Ok(Map(sort_by_key_reverse(retain_project(opencode_scan_thread_records(clock), project_path)),
           LAMBDA record :
               [summary |-> record.summary,
                last_message_preview |->
                    build_last_message_preview(opencode_load_thread_messages(record.session_id))]))

-----------------------------------------------------------------------------
(* The desktop commands over the three adapters *)

map_thread_overview(overview) ==
    [id |-> overview.summary.id,
     provider_id |-> overview.summary.provider_id,
     project_path |-> overview.summary.project_path,
     title |-> overview.summary.title,
     last_active_at |-> overview.summary.last_active_at,
     last_message_preview |-> overview.last_message_preview]

\* raw.parse::<i64>().unwrap_or(0), then the scale test of normalize_epoch
sortable_last_active_at(raw) ==
    IF raw.k = "decimal" THEN normalize_epoch(raw.int) ELSE 0

list_threads(project_path, clock) ==
    LET claude_threads == claude_list_thread_overviews(project_path, clock)
        codex_threads == codex_list_thread_overviews(project_path, clock)
        opencode_threads == opencode_list_thread_overviews(project_path, clock)
    IN IF ~claude_threads.ok THEN claude_threads
       ELSE IF ~codex_threads.ok THEN codex_threads
       ELSE IF ~opencode_threads.ok THEN opencode_threads
       ELSE LET threads == Map(claude_threads.value, map_thread_overview)
                           \o Map(codex_threads.value, map_thread_overview)
                           \o Map(opencode_threads.value, map_thread_overview)
                keyed == Map(threads,
                             LAMBDA thread :
                                 [thread |-> thread,
                                  sort_key |-> sortable_last_active_at(thread.last_active_at)])
            IN Ok(Map(sort_by_key_reverse(keyed), LAMBDA entry : entry.thread))

get_thread_messages(provider_id, thread_id, clock) ==
    CASE provider_id = "claude_code" -> claude_get_thread_messages(thread_id, clock)
      [] provider_id = "codex" -> codex_get_thread_messages(thread_id, clock)
      [] provider_id = "opencode" -> opencode_get_thread_messages(thread_id, clock)

-----------------------------------------------------------------------------
(* The database *)

MIGRATIONS == <<"0001_init">>

\* A database file: the rows of schema_migrations (None while the table does
\* not exist) and, for each migration, how many times its SQL has been
\* executed and committed.
Database(schema_migrations, applied) ==
    [schema_migrations |-> schema_migrations, applied |-> applied]

MigrationIds == { MIGRATIONS[i] : i \in 1..Len(MIGRATIONS) }

FreshDatabase == Database(None, [id \in MigrationIds |-> 0])

MigrationRow(id, applied_at) == [id |-> id, applied_at |-> applied_at]

\* The statements of run_migrations and init_db that can fail, "none" when
\* none does.
RunMigrationsFaults ==
    {"none", "create_table", "count", "begin", "migration_sql", "insert", "commit"}
InitDbFaults == {"create_dir_all", "open", "pragma_update"}

DbOk == [ok |-> TRUE]
DbError(kind) == [ok |-> FALSE, error |-> kind]

\* CREATE TABLE IF NOT EXISTS schema_migrations
create_schema_migrations(connection) ==
    IF IsSome(connection.schema_migrations) THEN connection
    ELSE [connection EXCEPT !.schema_migrations = Some(<< >>)]

\* SELECT COUNT(1) FROM schema_migrations WHERE id = ?1
count_migration_rows(connection, migration_id) ==
    Len(SelectSeq(Unwrap(connection.schema_migrations), LAMBDA row : row.id = migration_id))

\* The statements of one migration, each written to the database as it runs
\* and nothing undone on failure.
migration_autocommit(connection, migration_id, fault, clock) ==
    LET executed == [connection EXCEPT !.applied[migration_id] = @ + 1]
        inserted == [executed EXCEPT !.schema_migrations =
                        Some(Append(Unwrap(@), MigrationRow(migration_id, clock)))]
    IN IF fault = "begin" THEN [db |-> connection, ret |-> DbError("Sqlite")]
       ELSE IF fault = "migration_sql" THEN [db |-> connection, ret |-> DbError("Sqlite")]
       ELSE IF fault = "insert" \/ count_migration_rows(connection, migration_id) > 0
            THEN [db |-> executed, ret |-> DbError("Sqlite")]
       ELSE [db |-> inserted, ret |-> DbOk]

\* The transaction of one migration: its SQL and its row are committed
\* together; a Transaction dropped before commit rolls back.
migration_transaction(connection, migration_id, fault, clock) ==
    LET executed == [connection EXCEPT !.applied[migration_id] = @ + 1]
        inserted == [executed EXCEPT !.schema_migrations =
                        Some(Append(Unwrap(@), MigrationRow(migration_id, clock)))]
        rolled_back == connection
    IN IF fault = "begin" THEN [db |-> connection, ret |-> DbError("Sqlite")]
       ELSE IF fault = "migration_sql" THEN [db |-> rolled_back, ret |-> DbError("Sqlite")]
       \* id is the primary key of schema_migrations
       ELSE IF fault = "insert" \/ count_migration_rows(connection, migration_id) > 0
            THEN [db |-> rolled_back, ret |-> DbError("Sqlite")]
       ELSE IF fault = "commit" THEN [db |-> rolled_back, ret |-> DbError("Sqlite")]
       ELSE [db |-> inserted, ret |-> DbOk]

RECURSIVE run_migrations_loop(_, _, _, _)
run_migrations_loop(connection, migrations, fault, clock) ==
    IF migrations = << >> THEN [db |-> connection, ret |-> DbOk]
    ELSE IF fault = "count" THEN [db |-> connection, ret |-> DbError("Sqlite")]
    ELSE IF count_migration_rows(connection, Head(migrations)) > 0
    THEN run_migrations_loop(connection, Tail(migrations), fault, clock)
    ELSE LET done == migration_transaction(connection, Head(migrations), fault, clock)
         IN IF ~done.ret.ok THEN done
            ELSE run_migrations_loop(done.db, Tail(migrations), fault, clock)

run_migrations(connection, fault, clock) ==
    IF fault = "create_table" THEN [db |-> connection, ret |-> DbError("Sqlite")]
    ELSE run_migrations_loop(create_schema_migrations(connection), MIGRATIONS, fault, clock)

init_db(file, fault, clock) ==
    IF fault = "create_dir_all" THEN [db |-> file, ret |-> DbError("Io")]
    ELSE IF fault \in {"open", "pragma_update"} THEN [db |-> file, ret |-> DbError("Sqlite")]
    ELSE run_migrations(file, fault, clock)

RunMigrationsOp == "run_migrations"
InitDbOp == "init_db"

DbCall(op, fault, clock, ret) == [op |-> op, fault |-> fault, at |-> clock, ret |-> ret]

-----------------------------------------------------------------------------
(* Embedded terminals *)

\* Bytes are integers 0..255, a char is the sequence of the bytes that encode
\* it, and a String is a sequence of chars.
REPLACEMENT_CHARACTER == <<239, 191, 189>>

\* The length of the sequence a leading byte announces, 0 for a byte that
\* cannot lead (core::str::validations::utf8_char_width).
utf8_char_width(byte) ==
    IF byte < 128 THEN 1
    ELSE IF byte >= 194 /\ byte <= 223 THEN 2
    ELSE IF byte >= 224 /\ byte <= 239 THEN 3
    ELSE IF byte >= 240 /\ byte <= 244 THEN 4
    ELSE 0

\* Whether `byte` may stand at offset k (1..3) after the leading byte `first`.
utf8_continues(first, k, byte) ==
    IF k > 1 THEN byte >= 128 /\ byte <= 191
    ELSE CASE first = 224 -> byte >= 160 /\ byte <= 191
           [] first = 237 -> byte >= 128 /\ byte <= 159
           [] first = 240 -> byte >= 144 /\ byte <= 191
           [] first = 244 -> byte >= 128 /\ byte <= 143
           [] OTHER -> byte >= 128 /\ byte <= 191

\* What stands at position i of `bytes`: a char of `len` bytes, an invalid
\* sequence of `len` bytes, or a sequence of `len` bytes that the end of the
\* input cuts short.
RECURSIVE utf8_sequence_from(_, _, _)
utf8_sequence_from(bytes, i, k) ==
    LET width == utf8_char_width(bytes[i]) IN
    IF width = 0 THEN [kind |-> "invalid", len |-> 1]
    ELSE IF k = width THEN [kind |-> "char", len |-> width]
    ELSE IF i + k > Len(bytes) THEN [kind |-> "incomplete", len |-> k]
    ELSE IF ~utf8_continues(bytes[i], k, bytes[i + k]) THEN [kind |-> "invalid", len |-> k]
    ELSE utf8_sequence_from(bytes, i, k + 1)

utf8_sequence_at(bytes, i) == utf8_sequence_from(bytes, i, 1)

\* std::str::from_utf8: Ok, or the Utf8Error with valid_up_to and error_len.
RECURSIVE from_utf8_at(_, _)
from_utf8_at(bytes, i) ==
    IF i > Len(bytes) THEN [ok |-> TRUE, valid_up_to |-> Len(bytes), error_len |-> None]
    ELSE LET sequence == utf8_sequence_at(bytes, i) IN
         CASE sequence.kind = "char" -> from_utf8_at(bytes, i + sequence.len)
           [] sequence.kind = "invalid" ->
                [ok |-> FALSE, valid_up_to |-> i - 1, error_len |-> Some(sequence.len)]
           [] OTHER -> [ok |-> FALSE, valid_up_to |-> i - 1, error_len |-> None]

from_utf8(bytes) == from_utf8_at(bytes, 1)

\* String::from_utf8_lossy: every char as it is, and one U+FFFD for every
\* maximal invalid sequence, a sequence cut short at the end included.
RECURSIVE from_utf8_lossy_at(_, _)
from_utf8_lossy_at(bytes, i) ==
    IF i > Len(bytes) THEN << >>
    ELSE LET sequence == utf8_sequence_at(bytes, i) IN
         IF sequence.kind = "char"
         THEN <<SubSeq(bytes, i, i + sequence.len - 1)>>
              \o from_utf8_lossy_at(bytes, i + sequence.len)
         ELSE <<REPLACEMENT_CHARACTER>> \o from_utf8_lossy_at(bytes, i + sequence.len)

from_utf8_lossy(bytes) == from_utf8_lossy_at(bytes, 1)

\* Vec::drain(..n)
Drain(bytes, n) == SubSeq(bytes, n + 1, Len(bytes))

\* The inner loop of the output reader on `pending`: the data of the events it
\* emits and what it leaves pending.  This variant forgets a sequence that
\* the end of a read cuts short.
RECURSIVE reader_decode_pending_without_carry(_, _)
reader_decode_pending_without_carry(pending, emitted) ==
    LET decoded == from_utf8(pending) IN
    IF decoded.ok
    THEN [pending |-> << >>,
          emitted |-> IF pending # << >> THEN Append(emitted, from_utf8_lossy(pending))
                      ELSE emitted]
    ELSE LET valid == IF decoded.valid_up_to > 0
                      THEN Append(emitted, from_utf8_lossy(Take(pending, decoded.valid_up_to)))
                      ELSE emitted
         IN IF IsSome(decoded.error_len)
            THEN LET rest == Drain(pending, decoded.valid_up_to + Unwrap(decoded.error_len))
                     replaced == Append(valid, <<REPLACEMENT_CHARACTER>>)
                 IN IF rest = << >> THEN [pending |-> << >>, emitted |-> replaced]
                    ELSE reader_decode_pending_without_carry(rest, replaced)
            ELSE [pending |-> << >>, emitted |-> valid]

RECURSIVE reader_decode_pending(_, _)
reader_decode_pending(pending, emitted) ==
    LET decoded == from_utf8(pending) IN
    IF decoded.ok
    THEN [pending |-> << >>,
          emitted |-> IF pending # << >> THEN Append(emitted, from_utf8_lossy(pending))
                      ELSE emitted]
    ELSE LET valid == IF decoded.valid_up_to > 0
                      THEN Append(emitted, from_utf8_lossy(Take(pending, decoded.valid_up_to)))
                      ELSE emitted
         IN IF IsSome(decoded.error_len)
            THEN LET rest == Drain(pending, decoded.valid_up_to + Unwrap(decoded.error_len))
                     replaced == Append(valid, <<REPLACEMENT_CHARACTER>>)
                 IN IF rest = << >> THEN [pending |-> << >>, emitted |-> replaced]
                    ELSE reader_decode_pending(rest, replaced)
            ELSE [pending |-> Drain(pending, decoded.valid_up_to), emitted |-> valid]

\* One turn of the loop of the output reader after a read of `chunk`.
reader_on_read(pending, chunk) == reader_decode_pending(pending \o chunk, << >>)

\* The turn of the loop at the end of the stream.
reader_on_eof(pending) ==
    [pending |-> << >>,
     emitted |-> IF pending # << >> /\ from_utf8_lossy(pending) # << >>
                 THEN <<from_utf8_lossy(pending)>> ELSE << >>]

\* Threads: the blocking task of a command, the exit watcher and the output
\* reader of a session.
NoThread == <<"none", 0>>
CallerThread(c) == <<"caller", c>>
WatcherThread(session_id) == <<"watcher", session_id>>

TerminalIds == 1..MaxTerminals
Callers == 1..MaxCallers

clamp_terminal_cols(value) ==
    LET cols == UnwrapOr(value, 120)
    IN IF cols <= 39 THEN 120 ELSE IF cols <= 320 THEN cols ELSE 320

clamp_terminal_rows(value) ==
    LET rows == UnwrapOr(value, 36)
    IN IF rows <= 11 THEN 36 ELSE IF rows <= 120 THEN rows ELSE 120

PtySize(rows, cols) == [rows |-> rows, cols |-> cols]

\* An EmbeddedTerminalSession with its child process and its PTY: the three
\* mutexes (who holds each), whether the child runs, the size of the PTY,
\* whether the child has been sent input, how many chunks it has written and
\* the bytes it has written that the reader has not read yet.
EmbeddedTerminalSession(child, size) ==
    [child |-> child, child_lock |-> NoThread, stdin_lock |-> NoThread,
     master_lock |-> NoThread, size |-> size, input |-> FALSE, written |-> 0, pty |-> << >>]

NoSession == EmbeddedTerminalSession("none", PtySize(0, 0))

\* create_embedded_session: the PTY is opened at the clamped size and the
\* child is spawned on it.
create_embedded_session(cols, rows) == EmbeddedTerminalSession("running", PtySize(rows, cols))

Caller(op, session_id, pc, stale) ==
    [op |-> op, session_id |-> session_id, pc |-> pc, stale |-> stale]
IdleCaller == Caller("idle", 0, "idle", FALSE)

Watcher(pc, status_code) == [pc |-> pc, status_code |-> status_code]
Reader(pc, pending, taken) == [pc |-> pc, pending |-> pending, taken |-> taken]

EmbeddedTerminalOutputPayload(session_id, data) ==
    [event |-> "embedded-terminal-output", session_id |-> session_id, data |-> data,
     status_code |-> None]
EmbeddedTerminalExitPayload(session_id, status_code) ==
    [event |-> "embedded-terminal-exit", session_id |-> session_id, data |-> << >>,
     status_code |-> status_code]

\* The manager before any command: EMBEDDED_TERMINAL_COUNTER is 1 and the
\* map of EMBEDDED_TERMINAL_SESSIONS is empty.  `removed` keeps the ids that
\* have been taken out of the map, and `events` what has been emitted, in
\* the order of emission, for each session id.
NoTerminals ==
    [counter |-> 1,
     registry |-> {},
     registry_lock |-> NoThread,
     sessions |-> [id \in TerminalIds |-> NoSession],
     callers |-> [c \in Callers |-> IdleCaller],
     watchers |-> [id \in TerminalIds |-> Watcher("none", None)],
     readers |-> [id \in TerminalIds |-> Reader("none", << >>, << >>)],
     events |-> [id \in TerminalIds |-> << >>],
     removed |-> {}]

StartOp == "start_embedded_terminal"
WriteOp == "write_embedded_terminal_input"
ResizeOp == "resize_embedded_terminal"
CloseOp == "close_embedded_terminal"

SessionNotFound == "Embedded terminal session not found"

TerminalError(message) == [ok |-> FALSE, error |-> message]

\* What a command returned, with the id it was about and whether that id had
\* been taken out of the map before the command began.
TerminalCall(op, session_id, stale, ret) ==
    [op |-> op, session_id |-> session_id, stale |-> stale, ret |-> ret]

CommandReturns(c, ret) ==
    LET caller == terminal.callers[c]
    IN result' = TerminalCall(caller.op, caller.session_id, caller.stale, ret)

\* The sizes a resize asks for.
ResizeRequests == { <<10, 10>>, <<400, 200>> }

\* What the child writes at a time.
OutputChunk == <<97>>

\* A lookup that finds every session ever created.
sessions_get_created(session_id) == terminal.sessions[session_id].child # "none"

\* sessions.get(session_id) on the map of the registry
sessions_get(session_id) == session_id \in terminal.registry

(* start_embedded_terminal and start_new_embedded_terminal *)

\* next_embedded_terminal_session_id and create_embedded_session, which may
\* fail after the id has been drawn.
StartCreateSession(c) ==
    /\ UNCHANGED <<db, now, storage>>
    /\ terminal.callers[c].op = "idle"
    /\ terminal.counter <= MaxTerminals
    /\ LET session_id == terminal.counter IN
       \/ /\ terminal' = [terminal EXCEPT
                 !.counter = @ + 1,
                 !.sessions[session_id] =
                     create_embedded_session(clamp_terminal_cols(None),
                                             clamp_terminal_rows(None)),
                 !.callers[c] = Caller(StartOp, session_id, "lock_registry", FALSE)]
          /\ result' = NoResult
       \/ /\ terminal' = [terminal EXCEPT !.counter = @ + 1]
          /\ result' = TerminalCall(StartOp, session_id, FALSE,
                                    TerminalError("Failed to allocate PTY"))

StartLockRegistry(c) ==
    /\ UNCHANGED <<db, now, storage>>
    /\ terminal.callers[c].op = StartOp
    /\ terminal.callers[c].pc = "lock_registry"
    /\ terminal.registry_lock = NoThread
    /\ terminal' = [terminal EXCEPT !.registry_lock = CallerThread(c),
                                    !.callers[c].pc = "insert"]
    /\ result' = NoResult

StartInsert(c) ==
    /\ UNCHANGED <<db, now, storage>>
    /\ terminal.callers[c].op = StartOp
    /\ terminal.callers[c].pc = "insert"
    /\ terminal' = [terminal EXCEPT
           !.registry = @ \cup {terminal.callers[c].session_id},
           !.registry_lock = NoThread,
           !.callers[c].pc = "spawn_threads"]
    /\ result' = NoResult

\* spawn_terminal_output_reader, spawn_terminal_exit_watcher and the return
StartSpawnThreads(c) ==
    /\ UNCHANGED <<db, now, storage>>
    /\ terminal.callers[c].op = StartOp
    /\ terminal.callers[c].pc = "spawn_threads"
    /\ terminal' = [terminal EXCEPT
           !.readers[terminal.callers[c].session_id] = Reader("read", << >>, << >>),
           !.watchers[terminal.callers[c].session_id] = Watcher("poll", None),
           !.callers[c] = IdleCaller]
    /\ CommandReturns(c, Ok(terminal.callers[c].session_id))

(* write_embedded_terminal_input *)

WriteLockRegistry(c) ==
    \E session_id \in TerminalIds :
        /\ UNCHANGED <<db, now, storage>>
        /\ terminal.callers[c].op = "idle"
        /\ terminal.registry_lock = NoThread
        /\ terminal' = [terminal EXCEPT
               !.registry_lock = CallerThread(c),
               !.callers[c] = Caller(WriteOp, session_id, "get",
                                     session_id \in terminal.removed)]
        /\ result' = NoResult

\* A lookup whose guard of the map lives until the write is done.
WriteGetKeepsRegistryLock(c) ==
    /\ UNCHANGED <<db, now, storage>>
    /\ terminal.callers[c].op = WriteOp
    /\ terminal.callers[c].pc = "get"
    /\ IF sessions_get(terminal.callers[c].session_id)
       THEN /\ terminal' = [terminal EXCEPT !.callers[c].pc = "lock_stdin"]
            /\ result' = NoResult
       ELSE /\ terminal' = [terminal EXCEPT !.registry_lock = NoThread,
                                            !.callers[c] = IdleCaller]
            /\ CommandReturns(c, TerminalError(SessionNotFound))

WriteGet(c) ==
    /\ UNCHANGED <<db, now, storage>>
    /\ terminal.callers[c].op = WriteOp
    /\ terminal.callers[c].pc = "get"
    /\ IF sessions_get(terminal.callers[c].session_id)
       THEN /\ terminal' = [terminal EXCEPT !.registry_lock = NoThread,
                                            !.callers[c].pc = "lock_stdin"]
            /\ result' = NoResult
       ELSE /\ terminal' = [terminal EXCEPT !.registry_lock = NoThread,
                                            !.callers[c] = IdleCaller]
            /\ CommandReturns(c, TerminalError(SessionNotFound))

WriteLockStdin(c) ==
    /\ UNCHANGED <<db, now, storage>>
    /\ terminal.callers[c].op = WriteOp
    /\ terminal.callers[c].pc = "lock_stdin"
    /\ terminal.sessions[terminal.callers[c].session_id].stdin_lock = NoThread
    /\ terminal' = [terminal EXCEPT
           !.sessions[terminal.callers[c].session_id].stdin_lock = CallerThread(c),
           !.callers[c].pc = "write_all"]
    /\ result' = NoResult

\* write_all and flush: the child is sent the data, or the PTY refuses it
\* once the child has gone.
WriteAll(c) ==
    LET session_id == terminal.callers[c].session_id IN
    /\ UNCHANGED <<db, now, storage>>
    /\ terminal.callers[c].op = WriteOp
    /\ terminal.callers[c].pc = "write_all"
    /\ \/ /\ terminal' = [terminal EXCEPT
                 !.sessions[session_id].stdin_lock = NoThread,
                 !.sessions[session_id].input = TRUE,
                 !.callers[c] = IdleCaller]
          /\ CommandReturns(c, Ok(<< >>))
       \/ /\ terminal.sessions[session_id].child = "exited"
          /\ terminal' = [terminal EXCEPT
                 !.sessions[session_id].stdin_lock = NoThread,
                 !.callers[c] = IdleCaller]
          /\ CommandReturns(c, TerminalError("Failed to write terminal input"))

(* resize_embedded_terminal *)

ResizeLockRegistry(c) ==
    \E session_id \in TerminalIds :
        /\ UNCHANGED <<db, now, storage>>
        /\ terminal.callers[c].op = "idle"
        /\ terminal.registry_lock = NoThread
        /\ terminal' = [terminal EXCEPT
               !.registry_lock = CallerThread(c),
               !.callers[c] = Caller(ResizeOp, session_id, "get",
                                     session_id \in terminal.removed)]
        /\ result' = NoResult

ResizeGet(c) ==
    /\ UNCHANGED <<db, now, storage>>
    /\ terminal.callers[c].op = ResizeOp
    /\ terminal.callers[c].pc = "get"
    /\ IF sessions_get(terminal.callers[c].session_id)
       THEN /\ terminal' = [terminal EXCEPT !.registry_lock = NoThread,
                                            !.callers[c].pc = "lock_master"]
            /\ result' = NoResult
       ELSE /\ terminal' = [terminal EXCEPT !.registry_lock = NoThread,
                                            !.callers[c] = IdleCaller]
            /\ CommandReturns(c, TerminalError(SessionNotFound))

ResizeLockMaster(c) ==
    /\ UNCHANGED <<db, now, storage>>
    /\ terminal.callers[c].op = ResizeOp
    /\ terminal.callers[c].pc = "lock_master"
    /\ terminal.sessions[terminal.callers[c].session_id].master_lock = NoThread
    /\ terminal' = [terminal EXCEPT
           !.sessions[terminal.callers[c].session_id].master_lock = CallerThread(c),
           !.callers[c].pc = "resize"]
    /\ result' = NoResult

ResizeMaster(c) ==
    LET session_id == terminal.callers[c].session_id IN
    /\ UNCHANGED <<db, now, storage>>
    /\ terminal.callers[c].op = ResizeOp
    /\ terminal.callers[c].pc = "resize"
    /\ \E request \in ResizeRequests :
          \/ /\ terminal' = [terminal EXCEPT
                    !.sessions[session_id].master_lock = NoThread,
                    !.sessions[session_id].size =
                        PtySize(clamp_terminal_rows(Some(request[2])),
                                clamp_terminal_cols(Some(request[1]))),
                    !.callers[c] = IdleCaller]
             /\ CommandReturns(c, Ok(<< >>))
          \/ /\ terminal.sessions[session_id].child = "exited"
             /\ terminal' = [terminal EXCEPT
                    !.sessions[session_id].master_lock = NoThread,
                    !.callers[c] = IdleCaller]
             /\ CommandReturns(c, TerminalError("Failed to resize embedded terminal"))

(* close_embedded_terminal *)

CloseLockRegistry(c) ==
    \E session_id \in TerminalIds :
        /\ UNCHANGED <<db, now, storage>>
        /\ terminal.callers[c].op = "idle"
        /\ terminal.registry_lock = NoThread
        /\ terminal' = [terminal EXCEPT
               !.registry_lock = CallerThread(c),
               !.callers[c] = Caller(CloseOp, session_id, "remove",
                                     session_id \in terminal.removed)]
        /\ result' = NoResult

\* remove_embedded_terminal_session, then the branch on what it returned
CloseRemove(c) ==
    LET session_id == terminal.callers[c].session_id IN
    /\ UNCHANGED <<db, now, storage>>
    /\ terminal.callers[c].op = CloseOp
    /\ terminal.callers[c].pc = "remove"
    /\ IF session_id \in terminal.registry
       THEN /\ terminal' = [terminal EXCEPT
                   !.registry = @ \ {session_id},
                   !.removed = @ \cup {session_id},
                   !.registry_lock = NoThread,
                   !.callers[c].pc = "lock_child"]
            /\ result' = NoResult
       ELSE /\ terminal' = [terminal EXCEPT !.registry_lock = NoThread,
                                            !.callers[c] = IdleCaller]
            /\ CommandReturns(c, Ok(<< >>))

CloseLockChild(c) ==
    /\ UNCHANGED <<db, now, storage>>
    /\ terminal.callers[c].op = CloseOp
    /\ terminal.callers[c].pc = "lock_child"
    /\ terminal.sessions[terminal.callers[c].session_id].child_lock = NoThread
    /\ terminal' = [terminal EXCEPT
           !.sessions[terminal.callers[c].session_id].child_lock = CallerThread(c),
           !.callers[c].pc = "kill"]
    /\ result' = NoResult

CloseKill(c) ==
    LET session_id == terminal.callers[c].session_id IN
    /\ UNCHANGED <<db, now, storage>>
    /\ terminal.callers[c].op = CloseOp
    /\ terminal.callers[c].pc = "kill"
    /\ terminal' = [terminal EXCEPT
           !.sessions[session_id].child_lock = NoThread,
           !.sessions[session_id].child = "exited",
           !.callers[c] = IdleCaller]
    /\ CommandReturns(c, Ok(<< >>))

(* The exit watcher of a session *)

WatcherLockChild(session_id) ==
    /\ UNCHANGED <<db, now, storage>>
    /\ terminal.watchers[session_id].pc = "poll"
    /\ terminal.sessions[session_id].child_lock = NoThread
    /\ terminal' = [terminal EXCEPT
           !.sessions[session_id].child_lock = WatcherThread(session_id),
           !.watchers[session_id].pc = "try_wait"]
    /\ result' = NoResult

\* try_wait under the lock, the lock released at the end of the block, and
\* the match on the poll status: Exited, Failed, or Running and the sleep.
WatcherTryWait(session_id) ==
    /\ UNCHANGED <<db, now, storage>>
    /\ terminal.watchers[session_id].pc = "try_wait"
    /\ \/ /\ terminal.sessions[session_id].child = "exited"
          /\ terminal' = [terminal EXCEPT
                 !.sessions[session_id].child_lock = NoThread,
                 !.watchers[session_id] = Watcher("lock_registry", Some(0))]
       \/ /\ terminal.sessions[session_id].child = "running"
          /\ terminal' = [terminal EXCEPT
                 !.sessions[session_id].child_lock = NoThread,
                 !.watchers[session_id] = Watcher("poll", None)]
       \/ /\ terminal' = [terminal EXCEPT
                 !.sessions[session_id].child_lock = NoThread,
                 !.watchers[session_id] = Watcher("lock_registry", None)]
    /\ result' = NoResult

WatcherLockRegistry(session_id) ==
    /\ UNCHANGED <<db, now, storage>>
    /\ terminal.watchers[session_id].pc = "lock_registry"
    /\ terminal.registry_lock = NoThread
    /\ terminal' = [terminal EXCEPT
           !.registry_lock = WatcherThread(session_id),
           !.watchers[session_id].pc = "remove"]
    /\ result' = NoResult

\* A watcher that leaves its session in the map.
WatcherKeepsSession(session_id) ==
    /\ UNCHANGED <<db, now, storage>>
    /\ terminal.watchers[session_id].pc = "remove"
    /\ terminal' = [terminal EXCEPT !.registry_lock = NoThread,
                                    !.watchers[session_id].pc = "emit"]
    /\ result' = NoResult

\* remove_embedded_terminal_session(&session_id) of the watcher
WatcherRemove(session_id) ==
    /\ UNCHANGED <<db, now, storage>>
    /\ terminal.watchers[session_id].pc = "remove"
    /\ terminal' = [terminal EXCEPT
           !.registry = @ \ {session_id},
           !.removed = IF session_id \in terminal.registry THEN @ \cup {session_id} ELSE @,
           !.registry_lock = NoThread,
           !.watchers[session_id].pc = "emit"]
    /\ result' = NoResult

WatcherEmit(session_id) ==
    /\ UNCHANGED <<db, now, storage>>
    /\ terminal.watchers[session_id].pc = "emit"
    /\ terminal' = [terminal EXCEPT
           !.events[session_id] =
               Append(@, EmbeddedTerminalExitPayload(
                             session_id, terminal.watchers[session_id].status_code)),
           !.watchers[session_id].pc = "done"]
    /\ result' = NoResult

(* The output reader of a session *)

OutputEvents(session_id, emitted) ==
    [i \in 1..Len(emitted) |-> EmbeddedTerminalOutputPayload(session_id, emitted[i])]

\* A read that returns some of the bytes the child has written, and the
\* turn of the loop on them.
ReaderRead(session_id) ==
    /\ UNCHANGED <<db, now, storage>>
    /\ terminal.readers[session_id].pc = "read"
    /\ \E read \in 1..Len(terminal.sessions[session_id].pty) :
          LET chunk == Take(terminal.sessions[session_id].pty, read)
              turn == reader_on_read(terminal.readers[session_id].pending, chunk)
          IN terminal' = [terminal EXCEPT
                 !.sessions[session_id].pty = Drain(@, read),
                 !.readers[session_id] = Reader("read", turn.pending, Append(@.taken, chunk)),
                 !.events[session_id] = @ \o OutputEvents(session_id, turn.emitted)]
    /\ result' = NoResult

\* A read after the child has gone and all it wrote has been read: the end of
\* the stream (Ok(0)), or an error.
ReaderEnd(session_id) ==
    /\ UNCHANGED <<db, now, storage>>
    /\ terminal.readers[session_id].pc = "read"
    /\ terminal.sessions[session_id].pty = << >>
    /\ terminal.sessions[session_id].child = "exited"
    /\ \/ LET turn == reader_on_eof(terminal.readers[session_id].pending)
          IN terminal' = [terminal EXCEPT
                 !.readers[session_id] = Reader("eof", turn.pending, @.taken),
                 !.events[session_id] = @ \o OutputEvents(session_id, turn.emitted)]
       \/ terminal' = [terminal EXCEPT !.readers[session_id].pc = "failed"]
    /\ result' = NoResult

(* The child of a session *)

ChildWrite(session_id) ==
    /\ UNCHANGED <<db, now, storage>>
    /\ terminal.sessions[session_id].child = "running"
    /\ terminal.sessions[session_id].written < MaxOutput
    /\ terminal' = [terminal EXCEPT !.sessions[session_id].written = @ + 1,
                                    !.sessions[session_id].pty = @ \o OutputChunk]
    /\ result' = NoResult

ChildExit(session_id) ==
    /\ UNCHANGED <<db, now, storage>>
    /\ terminal.sessions[session_id].child = "running"
    /\ terminal' = [terminal EXCEPT !.sessions[session_id].child = "exited"]
    /\ result' = NoResult

-----------------------------------------------------------------------------
(* The desktop app before anything ran *)

InitDesktop ==
    /\ db = FreshDatabase
    /\ terminal = NoTerminals

-----------------------------------------------------------------------------
(* The environment and the calls *)

Providers == {"claude_code", "codex", "opencode"}

\* Sample strings
IdT1 == <<"t", "1">>
IdT2 == <<"t", "2">>
IdUnknown == <<"n", "o">>
ThreadIds == {IdT1, IdT2, IdUnknown}

GetThreadRuntimeStateOp == "get_thread_runtime_state"
GetThreadMessagesOp == "get_thread_messages"

Call(op, provider, thread_id, ret) ==
    [op |-> op, provider |-> provider, thread_id |-> thread_id, ret |-> ret]

\* Time passes.
Tick ==
    /\ now < T0 + MaxTicks * TickMs
    /\ now' = now + TickMs
    /\ result' = NoResult
    /\ UNCHANGED <<desktop, storage>>

\* The Codex CLI appends one line to one of its transcripts.
CodexAppend(Lines) ==
    \E i \in 1..Len(codexFiles), line \in Lines :
        /\ roots["codex"] = "ok"
        /\ Len(codexFiles[i].lines) < MaxLines
        /\ codexFiles' = [codexFiles EXCEPT ![i].lines = Append(@, line),
                                            ![i].mtime = now]
        /\ result' = NoResult
        /\ UNCHANGED <<desktop, now, claudeFiles, roots, ocProjects, ocSessions, ocMessages, ocParts>>

\* CodexAdapter::get_thread_runtime_state
CodexGetThreadRuntimeState ==
    \E thread_id \in ThreadIds :
        /\ result' = Call(GetThreadRuntimeStateOp, "codex", thread_id,
                          codex_get_thread_runtime_state(thread_id, now))
        /\ UNCHANGED <<desktop, now, storage>>

\* The Claude CLI appends one line to one of its transcripts.
ClaudeAppend(Lines) ==
    \E i \in 1..Len(claudeFiles), line \in Lines :
        /\ roots["claude_code"] = "ok"
        /\ Len(claudeFiles[i].lines) < MaxLines
        /\ claudeFiles' = [claudeFiles EXCEPT ![i].lines = Append(@, line),
                                              ![i].mtime = now]
        /\ result' = NoResult
        /\ UNCHANGED <<desktop, now, codexFiles, roots, ocProjects, ocSessions, ocMessages, ocParts>>

IdS1 == <<"s", "1">>
SessionIds == {IdS1, IdUnknown}

Digits == <<"1", "2", "3", "4", "5", "6", "7", "8", "9">>
MessageId(n) == <<"m", Digits[n]>>

\* The OpenCode CLI writes the next message file of session s1; a template
\* gives its role and its created and completed times.
OcWriteMessage(Templates) ==
    \E t \in Templates :
        /\ roots["opencode"] = "ok"
        /\ Len(ocMessages) < MaxMessages
        /\ ocMessages' = Append(ocMessages,
               [OcMessageFile(IdS1, MessageId(Len(ocMessages) + 1), t[1], t[2], t[3])
                    EXCEPT !.mtime = now])
        /\ result' = NoResult
        /\ UNCHANGED <<desktop, now, claudeFiles, codexFiles, roots, ocProjects, ocSessions, ocParts>>

\* The OpenCode CLI writes the next part file of one of the messages.
OcWritePart(Templates) ==
    \E i \in 1..Len(ocMessages), t \in Templates :
        /\ Len(ocParts) < MaxParts
        /\ ocParts' = Append(ocParts,
               OcPartFile(ocMessages[i].stem, Len(ocParts) + 1, t[1], t[2], t[3]))
        /\ result' = NoResult
        /\ UNCHANGED <<desktop, now, claudeFiles, codexFiles, roots, ocProjects, ocSessions, ocMessages>>

\* OpenCodeAdapter::get_thread_runtime_state
OpenCodeGetThreadRuntimeState ==
    \E thread_id \in SessionIds :
        /\ result' = Call(GetThreadRuntimeStateOp, "opencode", thread_id,
                          opencode_get_thread_runtime_state(thread_id, now))
        /\ UNCHANGED <<desktop, now, storage>>

\* get_thread_messages of the desktop command layer
GetThreadMessages ==
    \E provider_id \in Providers, thread_id \in ThreadIds \cup SessionIds :
        /\ result' = Call(GetThreadMessagesOp, provider_id, thread_id,
                          get_thread_messages(provider_id, thread_id, now))
        /\ UNCHANGED <<desktop, now, storage>>

ListThreadsOp == "list_threads"
ProjectFilters == {None, Some(<<"/", "p">>), Some(<<"/", "p", "/", "x">>)}

\* list_threads of the desktop command layer
ListThreads ==
    \E project_path \in ProjectFilters :
        /\ result' = [op |-> ListThreadsOp, provider |-> "all",
                      project_path |-> project_path,
                      ret |-> list_threads(project_path, now)]
        /\ UNCHANGED <<desktop, now, storage>>

\* The OpenCode CLI writes the file of a new session; a template gives its
\* directory, title and time.updated.
OcWriteSession(Templates) ==
    \E t \in Templates :
        /\ roots["opencode"] = "ok"
        /\ Len(ocSessions) < MaxSessions
        /\ ocSessions' = Append(ocSessions,
               [OcSessionFile(IdS1, Some(IdS1), t[1], t[2])
                    EXCEPT !.time_updated = t[3], !.mtime = now])
        /\ result' = NoResult
        /\ UNCHANGED <<desktop, now, claudeFiles, codexFiles, roots, ocProjects, ocMessages, ocParts>>

ProviderListThreadsOp == "provider_list_threads"
ProviderListThreadOverviewsOp == "provider_list_thread_overviews"

\* list_threads and list_thread_overviews of one adapter
ProviderListThreads ==
    \E provider_id \in Providers, project_path \in ProjectFilters :
        /\ \/ result' = [op |-> ProviderListThreadsOp, provider |-> provider_id,
                         project_path |-> project_path,
                         ret |-> CASE provider_id = "claude_code" ->
                                        claude_list_threads(project_path, now)
                                   [] provider_id = "codex" ->
                                        codex_list_threads(project_path, now)
                                   [] provider_id = "opencode" ->
                                        opencode_list_threads(project_path, now)]
           \/ result' = [op |-> ProviderListThreadOverviewsOp, provider |-> provider_id,
                         project_path |-> project_path,
                         ret |-> CASE provider_id = "claude_code" ->
                                        claude_list_thread_overviews(project_path, now)
                                   [] provider_id = "codex" ->
                                        codex_list_thread_overviews(project_path, now)
                                   [] provider_id = "opencode" ->
                                        opencode_list_thread_overviews(project_path, now)]
        /\ UNCHANGED <<desktop, now, storage>>

-----------------------------------------------------------------------------
(* Codex runtime state: the transcripts the classifier tells apart *)

\* Timestamps written to the records: none, or one of two instants.
LineTimestamps ==
    {None} \cup { Some(TsNumber(MsInt(t))) : t \in {T0, T1} }

CodexEvent(type, ptype, role, timestamp) ==
    CodexRecord(Some(type), Some(CodexPayload(Some(ptype), role)), timestamp)

CodexRuntimeLines ==
    { CodexEvent(r[1], r[2], r[3], ts) :
        r \in { <<"event_msg", "user_message", None>>,
                <<"event_msg", "agent_reasoning", None>>,
                <<"response_item", "function_call", None>>,
                <<"response_item", "message", Some("assistant")>>,
                <<"event_msg", "turn_aborted", None>>,
                <<"event_msg", "token_count", None>> },
        ts \in LineTimestamps }
    \cup {MalformedLine}

InitCodexRuntime ==
    /\ now = T0
    /\ claudeFiles = << >>
    /\ codexFiles = <<TranscriptFile(IdT1, "jsonl", T0, << >>)>>
    /\ roots = [p \in Providers |-> "ok"]
    /\ ocProjects = << >>
    /\ ocSessions = << >>
    /\ ocMessages = << >>
    /\ ocParts = << >>
    /\ result = NoResult
    /\ InitDesktop

CodexAppendRuntimeLine == CodexAppend(CodexRuntimeLines)

NextCodexRuntime ==
    \/ Tick
    \/ CodexAppendRuntimeLine
    \/ CodexGetThreadRuntimeState

SpecCodexRuntime == InitCodexRuntime /\ [][NextCodexRuntime]_vars

-----------------------------------------------------------------------------
(* OpenCode runtime state: messages and parts with their own times *)

MessageTimestamps ==
    {None} \cup { Some(TsNumber(MsInt(t))) : t \in {T0, T1} }

\* <<role, time.created, time.completed>>
OcRuntimeMessages ==
    { <<Some("user"), c, None>> : c \in MessageTimestamps }
    \cup { <<Some("assistant"), c, d>> :
             c \in MessageTimestamps, d \in {None, Some(TsNumber(MsInt(T1)))} }

\* <<type, time.start, time.end>>
OcRuntimeParts ==
    { <<Some(ty), None, e>> :
        ty \in {"reasoning", "tool", "text", "step-finish", "patch"},
        e \in {None, Some(TsNumber(MsInt(T0)))} }

InitOpenCodeRuntime ==
    /\ now = T0
    /\ claudeFiles = << >>
    /\ codexFiles = << >>
    /\ roots = [p \in Providers |-> "ok"]
    /\ ocProjects = << >>
    /\ ocSessions = <<OcSessionFile(IdS1, Some(IdS1), None, None)>>
    /\ ocMessages = << >>
    /\ ocParts = << >>
    /\ result = NoResult
    /\ InitDesktop

OcWriteRuntimeMessage == OcWriteMessage(OcRuntimeMessages)
OcWriteRuntimePart == OcWritePart(OcRuntimeParts)

NextOpenCodeRuntime ==
    \/ Tick
    \/ OcWriteRuntimeMessage
    \/ OcWriteRuntimePart
    \/ OpenCodeGetThreadRuntimeState

SpecOpenCodeRuntime == InitOpenCodeRuntime /\ [][NextOpenCodeRuntime]_vars

-----------------------------------------------------------------------------
(* Messages: what get_thread_messages makes of the three stores *)

ClaudeUserText(text) ==
    ClaudeRecord(None, None, Some(TsNumber(MsInt(T0))),
                 Some(ClaudeMessage(Some("user"), Some(JString(text)))))

ClaudeToolUse(name, command) ==
    [JBlock(Some("tool_use"), None)
        EXCEPT !.name = Some(name), !.input = Some(JToolInput(None, None, Some(command)))]

ClaudeToolResult(text) ==
    [JBlock(Some("tool_result"), None) EXCEPT !.content = Some(JString(text))]

ClaudeBlocks(role, blocks) ==
    ClaudeRecord(None, None, Some(TsNumber(MsInt(T1))),
                 Some(ClaudeMessage(Some(role), Some(JArray(blocks)))))

ClaudeMessageLines ==
    { ClaudeUserText(<<"a">>),
      ClaudeBlocks("assistant", <<JBlock(Some("text"), Some(<<"b">>)),
                                  ClaudeToolUse(<<"Bash">>, <<"l", "s">>)>>),
      ClaudeBlocks("user", <<ClaudeToolResult(<<"o">>)>>),
      MalformedLine,
      NonUtf8Line }

CodexItem(payload, timestamp) == CodexRecord(Some("response_item"), Some(payload), timestamp)

CodexMessageLines ==
    { CodexItem([CodexPayload(Some("message"), Some("user"))
                    EXCEPT !.content = Some(JString(<<"a">>))],
                Some(TsNumber(MsInt(T0)))),
      CodexItem([CodexPayload(Some("message"), None)
                    EXCEPT !.content = Some(JArray(<<JBlock(Some("output_text"), Some(<<"b">>))>>))],
                Some(TsNumber(MsInt(T1)))),
      CodexItem([CodexPayload(Some("function_call"), None)
                    EXCEPT !.name = Some(<<"shell">>),
                           !.arguments = Some(JsonText(<<"{..}">>,
                               Some(JsonObject(Some(JString(<<"l", "s">>)), None))))],
                None),
      CodexItem([CodexPayload(Some("function_call_output"), None)
                    EXCEPT !.output = Some(JsonText(<<"o">>, None))],
                None),
      MalformedLine,
      NonUtf8Line }

\* <<role, time.created, time.completed>>
OcMessageTemplates ==
    { <<Some("user"), Some(TsNumber(MsInt(T0))), None>>,
      <<Some("assistant"), Some(TsNumber(MsInt(T0))), Some(TsNumber(MsInt(T1)))>> }

\* <<type, time.start, time.end>>
OcPartTypes ==
    { <<Some(ty), None, None>> : ty \in {"text", "reasoning", "tool", "step-start"} }

\* The text or the tool call that a part of each type carries.
OcPartBody(part) ==
    CASE part.type = Some("text") -> [part EXCEPT !.text = Some(<<"a">>)]
      [] part.type = Some("reasoning") -> [part EXCEPT !.text = Some(<<"r">>)]
      [] part.type = Some("tool") ->
            [part EXCEPT !.tool = Some(<<"bash">>),
                         !.state = Some(OcToolState(
                             Some(OcToolInput(Some(JString(<<"l", "s">>)), None, None)),
                             Some(JString(<<"o">>))))]
      [] OTHER -> part

\* The OpenCode CLI writes a part with the body of its type.
OcWritePartWithBody ==
    \E i \in 1..Len(ocMessages), t \in OcPartTypes :
        /\ roots["opencode"] = "ok"
        /\ Len(ocParts) < MaxParts
        /\ ocParts' = Append(ocParts,
               OcPartBody(OcPartFile(ocMessages[i].stem, Len(ocParts) + 1, t[1], t[2], t[3])))
        /\ result' = NoResult
        /\ UNCHANGED <<desktop, now, claudeFiles, codexFiles, roots, ocProjects, ocSessions, ocMessages>>

\* One CLI is installed: its root exists and holds one thread.
OneProvider(p) == [q \in Providers |-> IF q = p THEN "ok" ELSE "missing"]

InitMessages ==
    /\ now = T1
    /\ roots \in { OneProvider(p) : p \in Providers }
    /\ claudeFiles = IF roots["claude_code"] = "ok"
                     THEN <<TranscriptFile(IdT1, "jsonl", T0, << >>)>> ELSE << >>
    /\ codexFiles = IF roots["codex"] = "ok"
                    THEN <<TranscriptFile(IdT1, "jsonl", T0, << >>)>> ELSE << >>
    /\ ocProjects = << >>
    /\ ocSessions = IF roots["opencode"] = "ok"
                    THEN <<OcSessionFile(IdS1, Some(IdS1), None, None)>> ELSE << >>
    /\ ocMessages = << >>
    /\ ocParts = << >>
    /\ result = NoResult
    /\ InitDesktop

ClaudeAppendMessageLine == ClaudeAppend(ClaudeMessageLines)
CodexAppendMessageLine == CodexAppend(CodexMessageLines)
OcWriteMessageFile == OcWriteMessage(OcMessageTemplates)

NextMessages ==
    \/ ClaudeAppendMessageLine
    \/ CodexAppendMessageLine
    \/ OcWriteMessageFile
    \/ OcWritePartWithBody
    \/ GetThreadMessages
    \/ CodexGetThreadRuntimeState
    \/ OpenCodeGetThreadRuntimeState

SpecMessages == InitMessages /\ [][NextMessages]_vars

-----------------------------------------------------------------------------
(* The catalog: threads of the three providers, listed and looked up *)

PathPX == <<"/", "p", "/", "x">>
PathPY == <<"/", "p", "/", "y">>
PathQZ == <<"/", "q", "/", "z">>

ClaudeCatalogLines ==
    { ClaudeRecord(None, None, ts, None) :
        ts \in {Some(TsNumber(MsInt(T1))), Some(TsRfc3339(T1))} }
    \cup { ClaudeRecord(Some(IdT2), Some(PathPX), Some(TsNumber(MsInt(T0))), None) }

CodexCatalogLines ==
    { CodexRecord(Some("session_meta"),
                  Some([CodexPayload(None, None) EXCEPT !.id = Some(IdT2), !.cwd = Some(PathPY)]),
                  None),
      CodexEvent("event_msg", "agent_message", None, Some(TsNumber(MsInt(T1)))),
      CodexEvent("event_msg", "agent_reasoning", None, Some(TsNumber(MsInt(T0)))) }

\* <<directory, title, time.updated>>
OcSessionTemplates ==
    { <<d, t, u>> :
        d \in {None, Some(PathQZ)},
        t \in {None, Some(<<" ">>), Some(<<" ", "x", " ">>)},
        u \in {None} }

InitCatalog ==
    /\ now = T0
    /\ roots = [p \in Providers |-> "ok"]
    /\ claudeFiles = <<TranscriptFile(IdT1, "jsonl", T0, << >>)>>
    /\ codexFiles = <<TranscriptFile(IdT1, "jsonl", T0, << >>)>>
    /\ ocProjects = << >>
    /\ ocSessions = << >>
    /\ ocMessages = << >>
    /\ ocParts = << >>
    /\ result = NoResult
    /\ InitDesktop

ClaudeAppendCatalogLine == ClaudeAppend(ClaudeCatalogLines)
CodexAppendCatalogLine == CodexAppend(CodexCatalogLines)
OcWriteCatalogSession == OcWriteSession(OcSessionTemplates)

NextCatalog ==
    \/ Tick
    \/ ClaudeAppendCatalogLine
    \/ CodexAppendCatalogLine
    \/ OcWriteCatalogSession
    \/ ListThreads

SpecCatalog == InitCatalog /\ [][NextCatalog]_vars

-----------------------------------------------------------------------------
(* Storage faults: missing roots, unreadable directories and files *)

RootStates == {"ok", "missing", "unreadable"}

\* The one transcript of a line-delimited provider whose root exists:
\* readable or not, empty or holding a line that is no JSON.
FaultyTranscripts ==
    { [TranscriptFile(IdT1, "jsonl", T0, file_lines) EXCEPT !.readable = readable] :
        file_lines \in {<< >>, <<MalformedLine>>}, readable \in BOOLEAN }

\* The one session file of OpenCode: parseable, malformed or unreadable.
FaultySessions ==
    { [OcSessionFile(IdS1, Some(IdS1), None, None) EXCEPT !.enc = enc] :
        enc \in {"json", "malformed", "unreadable"} }

InitStorageFaults ==
    /\ now = T0
    /\ roots \in [Providers -> RootStates]
    /\ claudeFiles \in IF roots["claude_code"] = "missing" THEN {<< >>}
                       ELSE { <<f>> : f \in FaultyTranscripts }
    /\ codexFiles \in IF roots["codex"] = "missing" THEN {<< >>}
                      ELSE { <<f>> : f \in FaultyTranscripts }
    /\ ocProjects = << >>
    /\ ocSessions \in IF roots["opencode"] = "missing" THEN {<< >>}
                      ELSE { <<f>> : f \in FaultySessions }
    /\ ocMessages = << >>
    /\ ocParts = << >>
    /\ result = NoResult
    /\ InitDesktop

NextStorageFaults ==
    \/ ProviderListThreads
    \/ ListThreads

SpecStorageFaults == InitStorageFaults /\ [][NextStorageFaults]_vars

-----------------------------------------------------------------------------
(* Descriptors: identity, project directory, title and time of a thread *)

PathPXY == <<"/", "p", "/", "x", "y">>
AgentStem == <<"agent-", "7">>
IdS0 == <<"s", "0">>

\* Records of a Claude transcript: a metadata record, a user message, a
\* record with an empty id and an empty directory, one of another session
\* with a date string, and one whose directory is the root.
ClaudeDescriptorLines ==
    { [ClaudeRecord(Some(IdT1), Some(PathPX), Some(TsNumericString(MsInt(T0))), None)
          EXCEPT !.isMeta = Some(TRUE)],
      ClaudeRecord(Some(IdT1), Some(PathPX), Some(TsNumericString(MsInt(T1))),
                   Some(ClaudeMessage(Some("user"), Some(JString(<<"a">>))))),
      ClaudeRecord(Some(<< >>), Some(<< >>), None, None),
      ClaudeRecord(Some(IdT2), Some(PathPXY), Some(TsRfc3339(T1)), None),
      ClaudeRecord(None, Some(<<"/">>), None, None) }

CodexSessionMeta(id, cwd, timestamp) ==
    CodexRecord(Some("session_meta"),
                Some([CodexPayload(None, None) EXCEPT !.id = id, !.cwd = cwd]),
                timestamp)

CodexDescriptorLines ==
    { CodexSessionMeta(Some(IdT1), Some(PathPX), Some(TsNumericString(SecInt(T0 \div 1000)))),
      CodexSessionMeta(Some(IdT2), Some(PathPXY), Some(TsRfc3339(T1))),
      CodexSessionMeta(Some(<< >>), Some(<< >>), None),
      CodexSessionMeta(None, Some(<<"/">>), Some(TsText)),
      CodexEvent("event_msg", "agent_message", None, Some(TsNumber(MsInt(T1)))) }

\* Session records of OpenCode: with and without id, directory and title,
\* and with the parent references a record can carry.
OcDescriptorSessions ==
    { OcSessionFile(IdS1, id, directory, title) :
        id \in {Some(IdS1), Some(<< >>)},
        directory \in {None, Some(<< >>), Some(PathPX)},
        title \in {None, Some(<<" ">>)} }
    \cup { [OcSessionFile(IdS1, Some(IdS1), Some(PathPX), None)
               EXCEPT !.parentID = p[1], !.parentId = p[2]] :
           p \in { <<Some(JString(IdS0)), None>>,
                   <<None, Some(JString(IdS0))>>,
                   <<Some(JString(<<" ">>)), None>>,
                   <<Some(JString(<< >>)), Some(JString(IdS0))>> } }

\* One CLI is installed.  Claude has two transcripts, the second one either
\* of a session or of a sub-agent; OpenCode has one session to begin with.
InitDescriptors ==
    /\ now = T1
    /\ roots \in { OneProvider(p) : p \in Providers }
    /\ claudeFiles \in
          IF roots["claude_code"] = "ok"
          THEN { <<TranscriptFile(IdT1, "jsonl", T0, << >>),
                   TranscriptFile(stem, "jsonl", T0, << >>)>> : stem \in {IdT2, AgentStem} }
          ELSE { << >> }
    /\ codexFiles = IF roots["codex"] = "ok"
                    THEN <<TranscriptFile(IdT1, "jsonl", T0, << >>)>> ELSE << >>
    /\ ocProjects = << >>
    /\ ocSessions = IF roots["opencode"] = "ok"
                    THEN <<OcSessionFile(IdS0, None, Some(PathPXY), None)>> ELSE << >>
    /\ ocMessages = << >>
    /\ ocParts = << >>
    /\ result = NoResult
    /\ InitDesktop

ClaudeAppendDescriptorLine == ClaudeAppend(ClaudeDescriptorLines)
CodexAppendDescriptorLine == CodexAppend(CodexDescriptorLines)

\* The OpenCode CLI writes the file of one more session.
OcWriteDescriptorSession ==
    \E file \in OcDescriptorSessions :
        /\ roots["opencode"] = "ok"
        /\ Len(ocSessions) < MaxSessions + 1
        /\ ocSessions' = Append(ocSessions, [file EXCEPT !.mtime = now])
        /\ result' = NoResult
        /\ UNCHANGED <<desktop, now, claudeFiles, codexFiles, roots, ocProjects, ocMessages, ocParts>>

NextDescriptors ==
    \/ ClaudeAppendDescriptorLine
    \/ CodexAppendDescriptorLine
    \/ OcWriteDescriptorSession
    \/ ProviderListThreads
    \/ GetThreadMessages

SpecDescriptors == InitDescriptors /\ [][NextDescriptors]_vars

-----------------------------------------------------------------------------
(* Epoch arithmetic at the width of i64 *)

\* An i64 is a two's-complement word of four 16-bit limbs, the most
\* significant first.  The catalog above carries its instants as tagged
\* offsets; here the integers have their full width.
LimbBase == 256 * 256
Limbs == 1..4

I64_ZERO == <<0, 0, 0, 0>>
I64_MIN == <<32768, 0, 0, 0>>
I64_MAX == <<32767, 65535, 65535, 65535>>
\* 1_000_000_000_000 = 0x00E8_D4A5_1000
EpochThreshold == <<0, 232, 54437, 4096>>

IsNegative(w) == w[1] >= 32768

\* Unsigned comparison, limb by limb.
UnsignedLess(a, b) ==
    \E i \in Limbs : a[i] < b[i] /\ \A j \in 1..(i - 1) : a[j] = b[j]

\* a < b on i64
I64Less(a, b) ==
    IF IsNegative(a) # IsNegative(b) THEN IsNegative(a) ELSE UnsignedLess(a, b)

\* The carries of adding one to the inverted limbs, from the least
\* significant limb upwards.
NegCarry(w, i) == \A j \in (i + 1)..4 : w[j] = 0

\* 0 - w, wrapping
WrappingNeg(w) ==
    [ i \in Limbs |-> ((LimbBase - 1 - w[i]) + (IF NegCarry(w, i) THEN 1 ELSE 0)) % LimbBase ]

\* The carry into limb i of w * 1000 (limb 0 stands for the carry out).
RECURSIVE MulCarry(_, _)
MulCarry(w, i) ==
    IF i = 4 THEN 0 ELSE (w[i + 1] * 1000 + MulCarry(w, i + 1)) \div LimbBase

\* w * 1000, wrapping
WrappingMul1000(w) ==
    [ i \in Limbs |-> (w[i] * 1000 + MulCarry(w, i)) % LimbBase ]

\* The magnitude of w as an unsigned word (2^63 for i64::MIN).
UnsignedAbs(w) == IF IsNegative(w) THEN WrappingNeg(w) ELSE w

\* w * 1000 leaves the range of i64.
Mul1000Overflows(w) ==
    LET product == WrappingMul1000(UnsignedAbs(w))
    IN \/ MulCarry(UnsignedAbs(w), 0) # 0
       \/ IF IsNegative(w) THEN UnsignedLess(I64_MIN, product)
          ELSE UnsignedLess(I64_MAX, product)

Returned(v) == [panic |-> FALSE, value |-> v]
Panicked == [panic |-> TRUE]

\* i64::abs: overflows for i64::MIN, which panics when the build checks
\* overflow and wraps to i64::MIN when it does not.
i64_abs(w, overflow_checks) ==
    IF w = I64_MIN THEN (IF overflow_checks THEN Panicked ELSE Returned(I64_MIN))
    ELSE Returned(UnsignedAbs(w))

\* raw * 1000 on i64
i64_mul_1000(w, overflow_checks) ==
    IF Mul1000Overflows(w) /\ overflow_checks THEN Panicked
    ELSE Returned(WrappingMul1000(w))

normalize_epoch_i64(raw, overflow_checks) ==
    LET magnitude == i64_abs(raw, overflow_checks)
    IN IF magnitude.panic THEN Panicked
       ELSE IF I64Less(magnitude.value, EpochThreshold) THEN i64_mul_1000(raw, overflow_checks)
       ELSE Returned(raw)

\* The decimal string of an i64, and what str::parse::<i64> makes of a string.
I64DecimalString(w) == [k |-> "decimal", int |-> w]
parse_i64(raw) == IF raw.k = "decimal" THEN Some(raw.int) ELSE None

sortable_last_active_at_i64(raw, overflow_checks) ==
    LET parsed == UnwrapOr(parse_i64(raw), I64_ZERO)
        magnitude == i64_abs(parsed, overflow_checks)
    IN IF magnitude.panic THEN Panicked
       ELSE IF I64Less(magnitude.value, EpochThreshold) THEN i64_mul_1000(parsed, overflow_checks)
       ELSE Returned(parsed)

\* The integers tried: the limbs of the extremes of i64, of the threshold and
\* its negation, and of their neighbours.
I64Samples ==
    { <<w3, w2, w1, w0>> :
        w3 \in {0, 32767, 32768, 65535},
        w2 \in {0, 232, 65303, 65535},
        w1 \in {0, 54437, 11098, 65535},
        w0 \in {0, 1, 4095, 4096, 61440, 61441, 65535} }
    \cup { <<0, 0, 25939, 61696>>, <<0, 395, 53221, 26624>> }

NormalizeEpochOp == "normalize_epoch"
SortableLastActiveAtOp == "sortable_last_active_at"

InitEmptyStorage ==
    /\ now = T0
    /\ roots = [p \in Providers |-> "missing"]
    /\ claudeFiles = << >>
    /\ codexFiles = << >>
    /\ ocProjects = << >>
    /\ ocSessions = << >>
    /\ ocMessages = << >>
    /\ ocParts = << >>
    /\ result = NoResult
    /\ InitDesktop

\* normalize_epoch of a provider, applied to an integer read from a transcript
NormalizeEpoch ==
    \E raw \in I64Samples, overflow_checks \in BOOLEAN :
        /\ result' = [op |-> NormalizeEpochOp, raw |-> raw,
                      overflow_checks |-> overflow_checks,
                      ret |-> normalize_epoch_i64(raw, overflow_checks)]
        /\ UNCHANGED <<desktop, now, storage>>

\* sortable_last_active_at of the command layer, applied to a last_active_at
SortableLastActiveAt ==
    \E raw \in { I64DecimalString(w) : w \in I64Samples } \cup {NonNumericString},
       overflow_checks \in BOOLEAN :
        /\ result' = [op |-> SortableLastActiveAtOp, raw |-> raw,
                      overflow_checks |-> overflow_checks,
                      ret |-> sortable_last_active_at_i64(raw, overflow_checks)]
        /\ UNCHANGED <<desktop, now, storage>>

NextEpoch == NormalizeEpoch \/ SortableLastActiveAt

SpecEpoch == InitEmptyStorage /\ [][NextEpoch]_vars

-----------------------------------------------------------------------------
(* Text budgets: truncate_text on its own *)

MaxTextLen == 4
MaxBudget == 3

RECURSIVE TextsOfLength(_)
TextsOfLength(n) ==
    IF n = 0 THEN { << >> }
    ELSE { Append(text, ch) : text \in TextsOfLength(n - 1), ch \in {"a", "b"} }

SampleTexts == UNION { TextsOfLength(n) : n \in 0..MaxTextLen }

TruncateTextOp == "truncate_text"

\* truncate_text(input, max_chars)
TruncateText ==
    \E input \in SampleTexts, max_chars \in 0..MaxBudget :
        /\ result' = [op |-> TruncateTextOp, input |-> input, max_chars |-> max_chars,
                      ret |-> truncate_text(input, max_chars)]
        /\ UNCHANGED <<desktop, now, storage>>

NextTruncate == TruncateText

SpecTruncate == InitEmptyStorage /\ [][NextTruncate]_vars

-----------------------------------------------------------------------------
(* Health checks *)

\* What Command::new(binary).arg("--version").output() answers.
SpawnOutcomes == {"spawned", "not_found", "permission_denied"}

\* The Claude settings file: absent, present but unreadable, readable but no
\* JSON, or readable JSON.
SettingsStates == {"missing", "unreadable", "invalid", "valid"}

\* Path::exists on a sessions root: a root that cannot be listed exists when
\* the failure is on the directory itself (no read permission, a file in its
\* place) and does not when a directory above it cannot be searched.
sessions_dir_exists(root) ==
    CASE root = "ok" -> {TRUE}
      [] root = "missing" -> {FALSE}
      [] root = "unreadable" -> {TRUE, FALSE}

ProviderHealthCheckResult(provider_id, status, clock) ==
    Ok([provider_id |-> provider_id, status |-> status, checked_at |-> DecimalString(clock)])

claude_health_check(spawn, settings, clock) ==
    IF spawn = "not_found" THEN ProviderHealthCheckResult("claude_code", "offline", clock)
    ELSE IF spawn # "spawned" THEN provider_error("UpstreamUnavailable", TRUE)
    ELSE IF settings = "missing" THEN ProviderHealthCheckResult("claude_code", "degraded", clock)
    ELSE IF settings = "invalid" THEN ProviderHealthCheckResult("claude_code", "degraded", clock)
    ELSE IF settings = "unreadable"
         THEN ProviderHealthCheckResult("claude_code", "degraded", clock)
    ELSE ProviderHealthCheckResult("claude_code", "healthy", clock)

codex_health_check(spawn, exists, clock) ==
    IF spawn = "not_found" THEN ProviderHealthCheckResult("codex", "offline", clock)
    ELSE IF spawn # "spawned" THEN provider_error("UpstreamUnavailable", TRUE)
    ELSE IF ~exists THEN ProviderHealthCheckResult("codex", "degraded", clock)
    ELSE ProviderHealthCheckResult("codex", "healthy", clock)

opencode_health_check(spawn, exists, clock) ==
    IF spawn = "not_found" THEN ProviderHealthCheckResult("opencode", "offline", clock)
    ELSE IF spawn # "spawned" THEN provider_error("UpstreamUnavailable", TRUE)
    ELSE IF ~exists THEN ProviderHealthCheckResult("opencode", "degraded", clock)
    ELSE ProviderHealthCheckResult("opencode", "healthy", clock)

HealthCheckOp == "health_check"

HealthCall(provider_id, spawn, config, ret) ==
    [op |-> HealthCheckOp, provider |-> provider_id, spawn |-> spawn, config |-> config,
     ret |-> ret]

\* ClaudeAdapter::health_check
ClaudeHealthCheck ==
    \E spawn \in SpawnOutcomes, settings \in SettingsStates :
        /\ result' = HealthCall("claude_code", spawn, settings,
                                claude_health_check(spawn, settings, now))
        /\ UNCHANGED <<desktop, now, storage>>

\* CodexAdapter::health_check
CodexHealthCheck ==
    \E spawn \in SpawnOutcomes, exists \in sessions_dir_exists(roots["codex"]) :
        /\ result' = HealthCall("codex", spawn, roots["codex"],
                                codex_health_check(spawn, exists, now))
        /\ UNCHANGED <<desktop, now, storage>>

\* OpenCodeAdapter::health_check
OpenCodeHealthCheck ==
    \E spawn \in SpawnOutcomes, exists \in sessions_dir_exists(roots["opencode"]) :
        /\ result' = HealthCall("opencode", spawn, roots["opencode"],
                                opencode_health_check(spawn, exists, now))
        /\ UNCHANGED <<desktop, now, storage>>

InitHealth ==
    /\ now = T0
    /\ roots \in [Providers -> RootStates]
    /\ claudeFiles = << >>
    /\ codexFiles = << >>
    /\ ocProjects = << >>
    /\ ocSessions = << >>
    /\ ocMessages = << >>
    /\ ocParts = << >>
    /\ result = NoResult
    /\ InitDesktop

NextHealth ==
    \/ ClaudeHealthCheck
    \/ CodexHealthCheck
    \/ OpenCodeHealthCheck

SpecHealth == InitHealth /\ [][NextHealth]_vars

-----------------------------------------------------------------------------
(* Markup: texts that carry markers of the CLIs, and tool invocations *)

ClaudeToolUseInput(name, input) ==
    [JBlock(Some("tool_use"), None) EXCEPT !.name = Some(name), !.input = Some(input)]

\* User texts with a local-command marker first and in the middle, with an
\* instruction marker, a tool result and a nested block carrying the marker,
\* and tool invocations with a command, a command and a pattern, a command
\* and a description.
ClaudeMarkupLines ==
    { ClaudeUserText(<<"a">>),
      ClaudeUserText(<<LocalCommandTag, "o">>),
      ClaudeUserText(<<"a", LocalCommandTag, "o">>),
      ClaudeUserText(<<UserInstructionsTag, "i">>),
      ClaudeBlocks("user", <<ClaudeToolResult(<<LocalCommandTag, "o">>)>>),
      ClaudeBlocks("user", <<[JBlock(None, None)
                                 EXCEPT !.content = Some(JString(<<LocalCommandTag, "o">>))]>>),
      ClaudeBlocks("assistant", <<ClaudeToolUse(<<"Bash">>, <<"l", "s">>)>>),
      ClaudeBlocks("assistant",
                   <<ClaudeToolUseInput(<<"Bash">>,
                                        JToolInput(Some(<<"x">>), None, Some(<<"l", "s">>)))>>),
      ClaudeBlocks("assistant",
                   <<ClaudeToolUseInput(<<"Bash">>,
                                        JToolInput(None, Some(<<"d">>), Some(<<"l", "s">>)))>>) }

CodexUserText(text) ==
    CodexItem([CodexPayload(Some("message"), Some("user")) EXCEPT !.content = Some(JString(text))],
              Some(TsNumber(MsInt(T0))))

CodexMarkupLines ==
    { CodexUserText(<<"a">>),
      CodexUserText(<<UserInstructionsTag, "i">>),
      CodexUserText(<<"a", EnvironmentContextTag, "e">>),
      CodexUserText(<<LocalCommandTag, "o">>) }

InitMarkup ==
    /\ now = T1
    /\ roots \in { OneProvider(p) : p \in {"claude_code", "codex"} }
    /\ claudeFiles = IF roots["claude_code"] = "ok"
                     THEN <<TranscriptFile(IdT1, "jsonl", T0, << >>)>> ELSE << >>
    /\ codexFiles = IF roots["codex"] = "ok"
                    THEN <<TranscriptFile(IdT1, "jsonl", T0, << >>)>> ELSE << >>
    /\ ocProjects = << >>
    /\ ocSessions = << >>
    /\ ocMessages = << >>
    /\ ocParts = << >>
    /\ result = NoResult
    /\ InitDesktop

ClaudeAppendMarkupLine == ClaudeAppend(ClaudeMarkupLines)
CodexAppendMarkupLine == CodexAppend(CodexMarkupLines)

NextMarkup ==
    \/ ClaudeAppendMarkupLine
    \/ CodexAppendMarkupLine
    \/ GetThreadMessages

SpecMarkup == InitMarkup /\ [][NextMarkup]_vars

-----------------------------------------------------------------------------
(* Command wrappers: the texts the CLI writes for a slash command *)

CommandNameOpen == "<command-name>"
CommandNameClose == "</command-name>"
CommandMessageOpen == "<command-message>"
CommandMessageClose == "</command-message>"

\* A text together with what its wrappers hold: the inner text of its
\* command-name wrapper and of its command-message wrapper, None without one.
WrappedText(text, name, message) == [text |-> text, name |-> name, message |-> message]

CommandWrapperTexts ==
    { WrappedText(<<"a">>, None, None),
      WrappedText(<<CommandNameOpen, "/", "i", CommandNameClose>>, Some(<<"/", "i">>), None),
      WrappedText(<<CommandNameOpen, " ", "/", "i", "\n", CommandNameClose>>,
                  Some(<<" ", "/", "i", "\n">>), None),
      WrappedText(<<"a", " ", CommandNameOpen, "/", "c", CommandNameClose, " ", "b">>,
                  Some(<<"/", "c">>), None),
      WrappedText(<<CommandMessageOpen, "i", CommandMessageClose, "\n",
                    CommandNameOpen, "/", "i", CommandNameClose>>,
                  Some(<<"/", "i">>), Some(<<"i">>)),
      WrappedText(<<CommandNameOpen, "/", "c", CommandNameClose, "\n",
                    CommandMessageOpen, "c", CommandMessageClose, "\n",
                    CommandArgsTag, "x", "</command-args>">>,
                  Some(<<"/", "c">>), Some(<<"c">>)),
      WrappedText(<<CommandMessageOpen, "i", CommandMessageClose>>, None, Some(<<"i">>)),
      WrappedText(<<CommandMessageOpen, "c", " ", "d", CommandMessageClose, "\n",
                    CommandArgsTag, "x", "</command-args>">>,
                  None, Some(<<"c", " ", "d">>)),
      WrappedText(<<CommandNameOpen, " ", CommandNameClose, CommandMessageOpen, "m",
                    CommandMessageClose>>,
                  Some(<<" ">>), Some(<<"m">>)),
      WrappedText(<<CommandArgsTag, "x", "</command-args>">>, None, None),
      WrappedText(<<LocalCommandTag, "o", CommandNameOpen, "/", "i", CommandNameClose>>,
                  Some(<<"/", "i">>), None) }

\* The text as the content of a user message, bare or carried by a text block.
ClaudeCommandWrapperLines ==
    { ClaudeUserText(w.text) : w \in CommandWrapperTexts }
    \cup { ClaudeBlocks("user", <<JBlock(Some("text"), Some(w.text))>>) :
               w \in CommandWrapperTexts }

InitCommandWrappers ==
    /\ now = T1
    /\ roots = OneProvider("claude_code")
    /\ claudeFiles = <<TranscriptFile(IdT1, "jsonl", T0, << >>)>>
    /\ codexFiles = << >>
    /\ ocProjects = << >>
    /\ ocSessions = << >>
    /\ ocMessages = << >>
    /\ ocParts = << >>
    /\ result = NoResult
    /\ InitDesktop

ClaudeAppendCommandWrapperLine == ClaudeAppend(ClaudeCommandWrapperLines)

NextCommandWrappers ==
    \/ ClaudeAppendCommandWrapperLine
    \/ GetThreadMessages

SpecCommandWrappers == InitCommandWrappers /\ [][NextCommandWrappers]_vars

-----------------------------------------------------------------------------
(* Migrations *)

\* run_migrations on the open connection; any one of its statements may fail.
RunMigrations ==
    \E fault \in RunMigrationsFaults :
        LET done == run_migrations(db, fault, now)
        IN /\ db' = done.db
           /\ result' = DbCall(RunMigrationsOp, fault, now, done.ret)
           /\ UNCHANGED <<terminal, now, storage>>

\* init_db on the database file.
InitDb ==
    \E fault \in RunMigrationsFaults \cup InitDbFaults :
        LET done == init_db(db, fault, now)
        IN /\ db' = done.db
           /\ result' = DbCall(InitDbOp, fault, now, done.ret)
           /\ UNCHANGED <<terminal, now, storage>>

\* Time passes.
DbTick ==
    /\ now < T0 + (MaxTicks + 1) * TickMs
    /\ now' = now + TickMs
    /\ UNCHANGED <<desktop, storage, result>>

NextMigrations ==
    \/ RunMigrations
    \/ InitDb
    \/ DbTick

SpecMigrations == InitEmptyStorage /\ [][NextMigrations]_vars

-----------------------------------------------------------------------------
(* Sort keys: transcripts whose records are stamped in every accepted form *)

\* An instant later than every reading of the clock (a record stamped by a
\* clock that runs ahead).
TAhead == T0 + (MaxTicks + 1) * TickMs

SortKeyTimestamps ==
    { None,
      Some(TsNumber(MsInt(T0))),
      Some(TsNumber(MsInt(TAhead))),
      Some(TsNumericString(SecInt(TAhead \div 1000))),
      Some(TsRfc3339(TAhead)),
      Some(TsText),
      Some(TsOther) }

ClaudeSortKeyLines ==
    { ClaudeRecord(Some(IdT1), None, ts, None) : ts \in SortKeyTimestamps } \cup {MalformedLine}

CodexSortKeyLines ==
    { CodexEvent("event_msg", "agent_message", None, ts) : ts \in SortKeyTimestamps }
    \cup {MalformedLine}

InitSortKeys ==
    /\ now = T0
    /\ roots \in { OneProvider(p) : p \in {"claude_code", "codex"} }
    /\ claudeFiles = IF roots["claude_code"] = "ok"
                     THEN <<TranscriptFile(IdT1, "jsonl", T0, << >>)>> ELSE << >>
    /\ codexFiles = IF roots["codex"] = "ok"
                    THEN <<TranscriptFile(IdT1, "jsonl", T0, << >>)>> ELSE << >>
    /\ ocProjects = << >>
    /\ ocSessions = << >>
    /\ ocMessages = << >>
    /\ ocParts = << >>
    /\ result = NoResult
    /\ InitDesktop

ClaudeAppendSortKeyLine == ClaudeAppend(ClaudeSortKeyLines)
CodexAppendSortKeyLine == CodexAppend(CodexSortKeyLines)

NextSortKeys ==
    \/ Tick
    \/ ClaudeAppendSortKeyLine
    \/ CodexAppendSortKeyLine
    \/ ProviderListThreads

SpecSortKeys == InitSortKeys /\ [][NextSortKeys]_vars

-----------------------------------------------------------------------------
(* Embedded terminals: commands, watchers, readers and children interleaved *)

CallerStep(c) ==
    \/ StartCreateSession(c)
    \/ StartLockRegistry(c)
    \/ StartInsert(c)
    \/ StartSpawnThreads(c)
    \/ WriteLockRegistry(c)
    \/ WriteGet(c)
    \/ WriteLockStdin(c)
    \/ WriteAll(c)
    \/ ResizeLockRegistry(c)
    \/ ResizeGet(c)
    \/ ResizeLockMaster(c)
    \/ ResizeMaster(c)
    \/ CloseLockRegistry(c)
    \/ CloseRemove(c)
    \/ CloseLockChild(c)
    \/ CloseKill(c)

WatcherStep(session_id) ==
    \/ WatcherLockChild(session_id)
    \/ WatcherTryWait(session_id)
    \/ WatcherLockRegistry(session_id)
    \/ WatcherRemove(session_id)
    \/ WatcherEmit(session_id)

ReaderStep(session_id) ==
    \/ ReaderRead(session_id)
    \/ ReaderEnd(session_id)

ChildStep(session_id) ==
    \/ ChildWrite(session_id)
    \/ ChildExit(session_id)

NextTerminals ==
    \/ \E c \in Callers : CallerStep(c)
    \/ \E session_id \in TerminalIds :
          WatcherStep(session_id) \/ ReaderStep(session_id) \/ ChildStep(session_id)

\* The manager after every start but the last one that the bound allows has
\* drawn its id and failed to create its session.
InitLastTerminal ==
    /\ now = T0
    /\ roots = [p \in Providers |-> "missing"]
    /\ claudeFiles = << >>
    /\ codexFiles = << >>
    /\ ocProjects = << >>
    /\ ocSessions = << >>
    /\ ocMessages = << >>
    /\ ocParts = << >>
    /\ result = NoResult
    /\ db = FreshDatabase
    /\ terminal = [NoTerminals EXCEPT !.counter = MaxTerminals]

SpecTerminals == InitLastTerminal /\ [][NextTerminals]_vars

\* The steps of a command after its first, of the watcher of a session and
\* of its reader.
CallerContinues(c) == terminal.callers[c].op # "idle" /\ CallerStep(c)

\* Every thread that can take a step again and again takes one: a blocking
\* task, a watcher (which polls every 80 ms) and a thread that waits for a
\* mutex that is released again and again are scheduled in the end.
SpecTerminalsFair ==
    /\ SpecTerminals
    /\ \A c \in Callers : SF_vars(CallerContinues(c))
    /\ \A session_id \in TerminalIds : SF_vars(WatcherStep(session_id))

\* The commands, the watchers and the exits of the children, without the
\* output of the children (which none of them reads).
NextTerminalRegistry ==
    \/ \E c \in Callers : CallerStep(c)
    \/ \E session_id \in TerminalIds : WatcherStep(session_id) \/ ChildExit(session_id)

SpecTerminalRegistry == InitEmptyStorage /\ [][NextTerminalRegistry]_vars

-----------------------------------------------------------------------------
(* The output reader on a stream of bytes *)

\* Bytes of chars of one to four bytes (a, U+00E9, U+20AC, U+1F0AC), a byte
\* that leads a char whose second byte is restricted (237), and a byte that
\* stands in no encoding (255).
ByteSamples == {97, 195, 169, 226, 130, 172, 240, 159, 237, 255}

RECURSIVE ByteStreams(_)
ByteStreams(n) ==
    IF n = 0 THEN { << >> }
    ELSE LET shorter == ByteStreams(n - 1)
         IN shorter \cup { Append(stream, byte) : stream \in shorter, byte \in ByteSamples }

\* A session whose child has written a stream and has gone, before its
\* reader has read anything.
InitTerminalReader ==
    /\ now = T0
    /\ roots = [p \in Providers |-> "missing"]
    /\ claudeFiles = << >>
    /\ codexFiles = << >>
    /\ ocProjects = << >>
    /\ ocSessions = << >>
    /\ ocMessages = << >>
    /\ ocParts = << >>
    /\ result = NoResult
    /\ db = FreshDatabase
    /\ \E stream \in ByteStreams(MaxStreamLen) :
          terminal = [NoTerminals EXCEPT
                         !.counter = 2,
                         !.registry = {1},
                         !.sessions[1] =
                             [create_embedded_session(clamp_terminal_cols(None),
                                                      clamp_terminal_rows(None))
                                 EXCEPT !.child = "exited", !.written = 1, !.pty = stream],
                         !.readers[1] = Reader("read", << >>, << >>),
                         !.watchers[1] = Watcher("poll", None)]

NextTerminalReader == ReaderRead(1) \/ ReaderEnd(1)

SpecTerminalReader == InitTerminalReader /\ [][NextTerminalReader]_vars

-----------------------------------------------------------------------------
(* Transcripts that carry the same thread id *)

DuplicateTimestamps == {None, Some(TsNumber(MsInt(T1)))}

\* Lines with and without the id t1, with and without a time later than the
\* modification time of the file, and with a text that tells the files apart.
ClaudeDuplicateLines ==
    { [ClaudeUserText(text) EXCEPT !.sessionId = id, !.timestamp = ts] :
        text \in {<<"a">>, <<"b">>}, id \in {None, Some(IdT1)}, ts \in DuplicateTimestamps }

CodexDuplicateLines ==
    { CodexSessionMeta(Some(IdT1), None, ts) : ts \in DuplicateTimestamps }
    \cup { CodexItem([CodexPayload(Some("message"), Some("user"))
                         EXCEPT !.content = Some(JString(text))], ts) :
              text \in {<<"a">>, <<"b">>}, ts \in DuplicateTimestamps }

\* Two transcripts of one provider, t1.jsonl and t2.jsonl, in the order the
\* directory gives them.
InitDuplicates ==
    /\ now = T0
    /\ roots \in { OneProvider(p) : p \in {"claude_code", "codex"} }
    /\ claudeFiles = IF roots["claude_code"] = "ok"
                     THEN <<TranscriptFile(IdT1, "jsonl", T0, << >>),
                            TranscriptFile(IdT2, "jsonl", T0, << >>)>>
                     ELSE << >>
    /\ codexFiles = IF roots["codex"] = "ok"
                    THEN <<TranscriptFile(IdT1, "jsonl", T0, << >>),
                           TranscriptFile(IdT2, "jsonl", T0, << >>)>>
                    ELSE << >>
    /\ ocProjects = << >>
    /\ ocSessions = << >>
    /\ ocMessages = << >>
    /\ ocParts = << >>
    /\ result = NoResult
    /\ InitDesktop

ClaudeAppendDuplicateLine == ClaudeAppend(ClaudeDuplicateLines)
CodexAppendDuplicateLine == CodexAppend(CodexDuplicateLines)

NextDuplicates ==
    \/ ClaudeAppendDuplicateLine
    \/ CodexAppendDuplicateLine
    \/ GetThreadMessages

SpecDuplicates == InitDuplicates /\ [][NextDuplicates]_vars

-----------------------------------------------------------------------------
(* Claims *)

IsCall(op, provider) == result.op = op /\ result.provider = provider

\* The records of a transcript, the lines that are no JSON value left out.
JsonRecords(file) == SelectSeq(file.lines, LAMBDA line : line.enc = "json")

\* The transcript a Codex thread id resolves to.
CodexTranscriptOf(thread_id) == codex_find_thread_record(thread_id, now).value.source

\* Positions of the classified records and, among them, of those with a timestamp.
CodexClassified(recs) ==
    { i \in 1..Len(recs) : IsSome(codex_extract_semantic_event_kind(recs[i])) }

CodexTimed(recs) ==
    { i \in CodexClassified(recs) : IsSome(codex_parse_timestamp_ms(recs[i].timestamp)) }

Last(S) == CHOOSE i \in S : \A j \in S : j <= i

C2_ActivelyWorking == {"agent_reasoning", "agent_tool"}
C2_NotWorking == {"user_message", "agent_message", "turn_aborted"}

C1_StaleNeverAnswering ==
    (/\ result.op = GetThreadRuntimeStateOp
     /\ result.provider \in {"codex", "opencode"}
     /\ result.ret.ok
     /\ IsSome(result.ret.value.last_event_at_ms)
     /\ now - Unwrap(result.ret.value.last_event_at_ms) > 120000)
        => ~result.ret.value.agent_answering

\* Positions of the assistant messages in message order.
OcAssistants(nodes) == { i \in 1..Len(nodes) : nodes[i].role = "assistant" }

\* C3: for an OpenCode thread, agent_answering is true exactly when the most
\* recent assistant message has no completion timestamp and was created
\* within 120000 ms of now; an older assistant message without completion
\* does not count once a later assistant message has completed.
C3_OpenCodeMostRecentAssistant ==
    (IsCall(GetThreadRuntimeStateOp, "opencode") /\ result.ret.ok) =>
        LET nodes == opencode_message_nodes(result.thread_id)
            A == OcAssistants(nodes)
            latest == nodes[Last(A)]
        IN result.ret.value.agent_answering <=>
              /\ A # {}
              /\ IsNone(latest.completed_ms)
              /\ IsSome(latest.created_ms)
              /\ now - Unwrap(latest.created_ms) <= 120000

\* The transcript a thread id of a line-delimited provider resolves to.
TranscriptOf(provider_id, thread_id) ==
    IF provider_id = "claude_code"
    THEN claude_find_thread_record(thread_id, now).value.source
    ELSE codex_find_thread_record(thread_id, now).value.source

\* A transcript with the lines that are no well-formed JSON value removed.
WithoutCorruptLines(file) == [file EXCEPT !.lines = JsonRecords(file)]

LineDelimited == {"claude_code", "codex"}

\* C7: for Claude and Codex, a line that cannot be read as a well-formed JSON
\* value is skipped and every other line is still processed: the messages, the
\* thread descriptor and the runtime state of a transcript equal those of the
\* transcript with the corrupt lines removed, wherever the corrupt lines stand.
C7_CorruptLinesSkipped ==
    (result.op = GetThreadMessagesOp /\ result.provider \in LineDelimited /\ result.ret.ok) =>
        LET file == TranscriptOf(result.provider, result.thread_id)
            clean == WithoutCorruptLines(file)
        IN IF result.provider = "claude_code"
           THEN /\ result.ret.value = claude_load_thread_messages(clean)
                /\ Unwrap(claude_parse_thread_file(file, now)).summary
                     = Unwrap(claude_parse_thread_file(clean, now)).summary
           ELSE /\ result.ret.value = codex_load_thread_messages(clean)
                /\ Unwrap(codex_parse_thread_file(file, now)).summary
                     = Unwrap(codex_parse_thread_file(clean, now)).summary
                /\ codex_load_thread_runtime_state(file, now)
                     = codex_load_thread_runtime_state(clean, now)

RECURSIVE Flatten(_)
Flatten(seqs) == IF seqs = << >> THEN << >> ELSE Head(seqs) \o Flatten(Tail(seqs))

\* The records of one Claude line: those of its content blocks, block by block.
C8_ClaudeLineRecords(parsed) ==
    IF parsed.enc # "json" THEN << >>
    ELSE IF IsSome(parsed.message) /\ IsSome(Unwrap(parsed.message).content)
            /\ Unwrap(Unwrap(parsed.message).content).k = "array"
            /\ parsed.isMeta # Some(TRUE) /\ parsed.isSidechain # Some(TRUE)
         THEN Flatten(Map(Unwrap(Unwrap(parsed.message).content).items,
                          LAMBDA block : claude_extract_message_records_from_block(
                                             UnwrapOr(Unwrap(parsed.message).role, "unknown"),
                                             block, claude_parse_timestamp_ms(parsed))))
         ELSE claude_line_messages(parsed)

C8_CodexLineRecords(parsed) ==
    IF parsed.enc # "json" THEN << >> ELSE codex_line_messages(parsed)

C9_KindAndCollapsed ==
    (result.op = GetThreadMessagesOp /\ result.ret.ok) =>
        \A i \in 1..Len(result.ret.value) :
            LET record == result.ret.value[i]
            IN /\ record.kind \in {"text", "tool"}
               /\ record.collapsed <=> (record.kind = "tool")

\* C9 witness: a thread returned with a tool record and a text record.
C9_Witness ==
    /\ result.op = GetThreadMessagesOp
    /\ result.ret.ok
    /\ \E i, j \in 1..Len(result.ret.value) :
          /\ result.ret.value[i].kind = "tool" /\ result.ret.value[i].collapsed
          /\ result.ret.value[j].kind = "text" /\ ~result.ret.value[j].collapsed

\* The sort_key of the scanned record that a listed thread comes from.
SortKeyOf(thread) ==
    LET records == CASE thread.provider_id = "claude_code" -> claude_scan_thread_records(now)
                     [] thread.provider_id = "codex" -> codex_scan_thread_records(now)
                     [] thread.provider_id = "opencode" -> opencode_scan_thread_records(now)
    IN records[CHOOSE i \in 1..Len(records) : records[i].summary.id = thread.id].sort_key

\* C4: the merged list returned by list_threads is in non-increasing order of
\* the threads' sort_key, also for threads whose last record timestamp is not
\* their largest and for threads without a parseable timestamp.
C4_MergedListBySortKey ==
    (result.op = ListThreadsOp /\ result.ret.ok) =>
        \A i \in 1..(Len(result.ret.value) - 1) :
            SortKeyOf(result.ret.value[i]) >= SortKeyOf(result.ret.value[i + 1])

\* The thread ids that the files of a provider's store declare.
DeclaredIds(provider_id) ==
    CASE provider_id = "claude_code" ->
            { Unwrap(claude_parse_thread_file(claudeFiles[i], now)).summary.id :
                i \in { j \in 1..Len(claudeFiles) :
                          IsSome(claude_parse_thread_file(claudeFiles[j], now)) } }
      [] provider_id = "codex" ->
            { Unwrap(codex_parse_thread_file(codexFiles[i], now)).summary.id :
                i \in { j \in 1..Len(codexFiles) :
                          IsSome(codex_parse_thread_file(codexFiles[j], now)) } }
      [] provider_id = "opencode" ->
            { Unwrap(opencode_parse_session_file(ocSessions[i], ocProjects, now)).summary.id :
                i \in { j \in 1..Len(ocSessions) :
                          IsSome(opencode_parse_session_file(ocSessions[j], ocProjects, now)) } }

LookupOps == {GetThreadMessagesOp, GetThreadRuntimeStateOp}

C5_Outcome ==
    result.op \in LookupOps =>
        IF result.thread_id \in DeclaredIds(result.provider)
        THEN result.ret.ok
        ELSE result.ret = Err("InvalidResponse", FALSE)

C5_StorageUntouched == (result'.op \in LookupOps) => (storage' = storage)

\* C5: get_thread_messages and get_thread_runtime_state return the error
\* InvalidResponse, not retryable, for a thread id that no scanned thread has,
\* and Ok for an id that a scanned thread has; neither changes the storage.
C5_UnknownThreadIsInvalidResponse == [](C5_Outcome) /\ [][C5_StorageUntouched]_vars

\* C5 witness: a lookup of an id that no thread has, next to a thread of
\* the same provider that has another id.
C5_Witness ==
    /\ result.op \in LookupOps
    /\ result.thread_id \notin DeclaredIds(result.provider)
    /\ DeclaredIds(result.provider) # {}
    /\ ~result.ret.ok

ListOps == {ListThreadsOp, ProviderListThreadsOp, ProviderListThreadOverviewsOp}

\* The provider of an entry of a listing, merged or of one adapter.
C6_ProviderOf(entry) ==
    IF result.op = ProviderListThreadOverviewsOp THEN entry.summary.provider_id
    ELSE entry.provider_id

\* C6: listing never fails for a state of the storage: with roots missing or
\* unreadable and files unreadable or unparseable, each adapter's list_threads
\* and list_thread_overviews and the merged list_threads return Ok, and a
\* provider whose root does not exist contributes no thread.
C6_ListingNeverFails ==
    result.op \in ListOps =>
        /\ result.ret.ok
        /\ \A i \in 1..Len(result.ret.value) :
              roots[C6_ProviderOf(result.ret.value[i])] = "ok"

\* C6 witness: the merged listing returned with one root missing, another
\* unreadable, and an unreadable transcript under the third.
C6_Witness ==
    /\ result.op = ListThreadsOp
    /\ result.ret.ok
    /\ roots["claude_code"] = "unreadable"
    /\ roots["opencode"] = "missing"
    /\ roots["codex"] = "ok"
    /\ ~codexFiles[1].readable

\* The session files that declare a thread id.
C10_SessionsOf(thread_id) ==
    { i \in 1..Len(ocSessions) : UnwrapOr(ocSessions[i].id, ocSessions[i].stem) = thread_id }

\* C10: when a thread has an official title entry that is not empty after
\* trimming, the title listed for the thread is that entry (trimmed), whatever
\* the project directory and the messages of the thread are.  Several session
\* files may declare one id; the listed thread then carries the entry of one
\* of them.
C10_OfficialTitleWins ==
    (result.op = ListThreadsOp /\ result.ret.ok) =>
        \A i \in 1..Len(result.ret.value) :
            LET thread == result.ret.value[i] IN
            (/\ thread.provider_id = "opencode"
             /\ \A j \in C10_SessionsOf(thread.id) :
                    /\ IsSome(ocSessions[j].title)
                    /\ Trim(Unwrap(ocSessions[j].title)) # << >>)
                => \E j \in C10_SessionsOf(thread.id) :
                       thread.title = Trim(Unwrap(ocSessions[j].title))

\* C10 witness: a listed OpenCode thread whose session has a title and a
\* project directory with another base name.
C10_Witness ==
    /\ result.op = ListThreadsOp
    /\ result.ret.ok
    /\ \E i \in 1..Len(result.ret.value) :
          /\ result.ret.value[i].provider_id = "opencode"
          /\ result.ret.value[i].title = <<"x">>
          /\ result.ret.value[i].project_path = PathQZ

\* The calls that list the threads of one provider.
IsListingOf(provider_id) ==
    /\ result.op \in {ProviderListThreadsOp, ProviderListThreadOverviewsOp}
    /\ result.provider = provider_id
    /\ result.ret.ok

\* The descriptor of the i-th entry of a listing (an overview wraps it).
ListedSummary(i) ==
    IF result.op = ProviderListThreadOverviewsOp THEN result.ret.value[i].summary
    ELSE result.ret.value[i]

\* The user-authored records of a transcript that are not tagged as metadata
\* or side-channel and carry a text that is not blank.
C11_UserTextLines(file_lines) ==
    { i \in 1..Len(file_lines) :
        /\ file_lines[i].enc = "json"
        /\ file_lines[i].isMeta # Some(TRUE)
        /\ file_lines[i].isSidechain # Some(TRUE)
        /\ IsSome(file_lines[i].message)
        /\ Unwrap(file_lines[i].message).role = Some("user")
        /\ IsSome(Unwrap(file_lines[i].message).content)
        /\ Unwrap(Unwrap(file_lines[i].message).content).k = "string"
        /\ Trim(Unwrap(Unwrap(file_lines[i].message).content).s) # << >> }

C11_FirstUserText(file_lines) ==
    LET first == CHOOSE i \in C11_UserTextLines(file_lines) :
                    \A j \in C11_UserTextLines(file_lines) : i <= j
    IN Trim(Unwrap(Unwrap(file_lines[first].message).content).s)

\* C11: a Claude transcript that holds a user record with text is listed as a
\* thread whose id is the declared sessionId and whose title is the text of
\* the first user-authored record that is not tagged as metadata.
C11_ClaudeTitleIsFirstUserText ==
    (IsListingOf("claude_code") /\ result.project_path = None) =>
        \A f \in 1..Len(claudeFiles) :
            (/\ ~StartsWith(claudeFiles[f].stem, <<"agent-">>)
             /\ C11_UserTextLines(claudeFiles[f].lines) # {}
             /\ IsSome(claudeFiles[f].lines[1].sessionId))
                => \E i \in 1..Len(result.ret.value) :
                      /\ ListedSummary(i).id = Unwrap(claudeFiles[f].lines[1].sessionId)
                      /\ ListedSummary(i).title = C11_FirstUserText(claudeFiles[f].lines)

IsListing == \E provider_id \in Providers : IsListingOf(provider_id)

\* C12: every thread that a provider's listing returns has a title that is
\* not empty, whatever the transcript holds: no project directory, an empty
\* one, "." or "/", a blank title entry, an empty thread id.
C12_TitleNeverEmpty ==
    IsListing => \A i \in 1..Len(result.ret.value) : ListedSummary(i).title # << >>

\* C12 witness: a listed thread whose id and project directory are both empty.
C12_Witness ==
    /\ IsListing
    /\ \E i \in 1..Len(result.ret.value) :
          /\ ListedSummary(i).id = << >>
          /\ ListedSummary(i).project_path = << >>
          /\ ListedSummary(i).title # << >>

\* C13: the last_active_at of every listed thread is the decimal string of a
\* normalized epoch-millisecond value, whatever encoding the timestamps of the
\* transcript use.
C13_LastActiveAtIsDecimalMs ==
    IsListing =>
        \A i \in 1..Len(result.ret.value) : ListedSummary(i).last_active_at.k = "decimal"

\* The integer a call of the epoch arithmetic was given, if it was given one.
C14_Input ==
    IF result.op = NormalizeEpochOp THEN Some(result.raw)
    ELSE IF result.op = SortableLastActiveAtOp THEN parse_i64(result.raw)
    ELSE None

\* v * 1000 when |v| < 10^12 and v otherwise; below the threshold the product
\* is within the range of i64, so the wrapping product is the exact one.
C14_Normalized(v) ==
    IF UnsignedLess(UnsignedAbs(v), EpochThreshold) THEN WrappingMul1000(v) ELSE v

\* C14: for every 64-bit integer v, timestamp normalization returns v * 1000
\* when |v| < 10^12 and v unchanged otherwise, without overflow.
C14_NormalizationOnAllOfI64 ==
    IsSome(C14_Input) => result.ret = Returned(C14_Normalized(Unwrap(C14_Input)))

\* The same statement for every integer but i64::MIN (true of the code).
C14_NormalizationAboveMin ==
    (IsSome(C14_Input) /\ Unwrap(C14_Input) # I64_MIN)
        => result.ret = Returned(C14_Normalized(Unwrap(C14_Input)))

\* 1700000000 (seconds) normalizes to 1700000000000.
C14_SecondsScenario ==
    /\ result.op = NormalizeEpochOp
    /\ result.raw = <<0, 0, 25939, 61696>>
    /\ result.ret = Returned(<<0, 395, 53221, 26624>>)

\* C15: for every input and every budget n >= 0, truncate_text returns at
\* most n + 3 characters, returns the input verbatim when it has at most n
\* characters, and returns the first n characters followed by the ellipsis
\* exactly when the input has more than n characters.
C15_TruncateTextContract ==
    result.op = TruncateTextOp =>
        LET n == result.max_chars
            input == result.input
        IN /\ Len(result.ret) <= n + 3
           /\ Len(input) <= n => result.ret = input
           /\ Len(input) > n <=> result.ret = Take(input, n) \o Ellipsis

\* The same statement for the budgets n >= 1 (true of the code).
C15_TruncateTextPositiveBudget ==
    (result.op = TruncateTextOp /\ result.max_chars >= 1) =>
        LET n == result.max_chars
            input == result.input
        IN /\ Len(result.ret) <= n + 3
           /\ Len(input) <= n => result.ret = input
           /\ Len(input) > n <=> result.ret = Take(input, n) \o Ellipsis

\* The state of what a provider's health check looks at: "present" when the
\* settings file is readable JSON or the sessions root can be read.
C16_ConfigPresent ==
    result.config \in {"valid", "ok"}

\* C16: health_check returns Ok(offline) exactly when the CLI binary is not
\* found, an UpstreamUnavailable retryable error exactly when spawning fails
\* otherwise, and else Ok(healthy) when the settings file or sessions root is
\* present and parseable and Ok(degraded) when it is missing, unreadable or
\* invalid.
C16_HealthCheckStatus ==
    result.op = HealthCheckOp =>
        /\ (result.ret.ok /\ result.ret.value.status = "offline") <=> result.spawn = "not_found"
        /\ ~result.ret.ok <=> result.spawn = "permission_denied"
        /\ ~result.ret.ok =>
              (result.ret.code = "UpstreamUnavailable" /\ result.ret.retryable)
        /\ result.spawn = "spawned" =>
              /\ result.ret.ok
              /\ result.ret.value.status =
                    IF C16_ConfigPresent THEN "healthy" ELSE "degraded"

\* The same statement for the Claude adapter alone (true of the code).
C16_ClaudeHealthCheckStatus ==
    (result.op = HealthCheckOp /\ result.provider = "claude_code") =>
        /\ (result.ret.ok /\ result.ret.value.status = "offline") <=> result.spawn = "not_found"
        /\ ~result.ret.ok <=> result.spawn = "permission_denied"
        /\ result.spawn = "spawned" =>
              /\ result.ret.ok
              /\ result.ret.value.status =
                    IF C16_ConfigPresent THEN "healthy" ELSE "degraded"

\* The thread records a provider scans, and its listing without a filter.
C17_Scanned ==
    CASE result.provider = "claude_code" -> claude_scan_thread_records(now)
      [] result.provider = "codex" -> codex_scan_thread_records(now)
      [] result.provider = "opencode" -> opencode_scan_thread_records(now)

C17_Unfiltered ==
    IF result.op = ProviderListThreadsOp
    THEN CASE result.provider = "claude_code" -> claude_list_threads(None, now).value
           [] result.provider = "codex" -> codex_list_threads(None, now).value
           [] result.provider = "opencode" -> opencode_list_threads(None, now).value
    ELSE CASE result.provider = "claude_code" -> claude_list_thread_overviews(None, now).value
           [] result.provider = "codex" -> codex_list_thread_overviews(None, now).value
           [] result.provider = "opencode" -> opencode_list_thread_overviews(None, now).value

C17_ProjectPathOf(entry) ==
    IF result.op = ProviderListThreadOverviewsOp THEN entry.summary.project_path
    ELSE entry.project_path

\* C17: with a filter p a listing returns exactly the scanned threads whose
\* project_path starts with p as a string, in the order of the unfiltered
\* listing; with no filter it returns every scanned thread.
C17_PrefixFilter ==
    IsListing =>
        /\ result.ret.value =
              IF IsNone(result.project_path) THEN C17_Unfiltered
              ELSE SelectSeq(C17_Unfiltered,
                             LAMBDA entry : StartsWith(C17_ProjectPathOf(entry),
                                                       Unwrap(result.project_path)))
        /\ IsNone(result.project_path) =>
              /\ Len(result.ret.value) = Len(C17_Scanned)
              /\ \A r \in 1..Len(C17_Scanned) :
                    \E i \in 1..Len(result.ret.value) :
                        ListedSummary(i) = C17_Scanned[r].summary

\* C17 witness: the filter "/p/x" keeps a thread of "/p/xy" and drops another.
C17_Witness ==
    /\ IsListing
    /\ result.project_path = Some(PathPX)
    /\ \E i \in 1..Len(result.ret.value) : ListedSummary(i).project_path = PathPXY
    /\ Len(result.ret.value) < Len(C17_Unfiltered)

\* A session record declares a parent-session reference that is not blank,
\* under either spelling of the key.
C18_HasParentReference(file) ==
    \E ref \in {file.parentID, file.parentId} :
        /\ IsSome(ref)
        /\ IsSome(as_str(Unwrap(ref)))
        /\ Trim(Unwrap(as_str(Unwrap(ref)))) # << >>

C18_SessionId(file) == UnwrapOr(file.id, file.stem)

\* The id an agent transcript of Claude declares.
C18_TranscriptId(file) ==
    LET declaring == { i \in 1..Len(file.lines) : IsSome(file.lines[i].sessionId) }
    IN IF declaring = {} THEN file.stem
       ELSE Unwrap(file.lines[CHOOSE i \in declaring : \A j \in declaring : i <= j].sessionId)

\* The ids that only excluded sources declare.
C18_ExcludedIds ==
    { C18_SessionId(ocSessions[i]) : i \in { j \in 1..Len(ocSessions) :
                                              C18_HasParentReference(ocSessions[j]) } }
        \ { C18_SessionId(ocSessions[i]) : i \in { j \in 1..Len(ocSessions) :
                                              ~C18_HasParentReference(ocSessions[j]) } }

C18_ExcludedTranscriptIds ==
    { C18_TranscriptId(claudeFiles[i]) : i \in { j \in 1..Len(claudeFiles) :
                                              StartsWith(claudeFiles[j].stem, <<"agent-">>) } }
        \ { C18_TranscriptId(claudeFiles[i]) : i \in { j \in 1..Len(claudeFiles) :
                                              ~StartsWith(claudeFiles[j].stem, <<"agent-">>) } }

\* C18: a thread of an excluded source (an OpenCode session that declares a
\* parent session under parentID or parentId, a Claude transcript named
\* agent-*) is never listed and cannot be resolved by id, while a session
\* whose parent reference is absent or blank is listed.
C18_ExcludedSourcesYieldNoThread ==
    /\ IsListingOf("opencode") =>
          \A i \in 1..Len(result.ret.value) : ListedSummary(i).id \notin C18_ExcludedIds
    /\ IsListingOf("claude_code") =>
          \A i \in 1..Len(result.ret.value) :
              ListedSummary(i).id \notin C18_ExcludedTranscriptIds
    /\ (result.op = GetThreadMessagesOp /\ result.provider = "opencode"
            /\ result.thread_id \in C18_ExcludedIds)
          => (~result.ret.ok /\ result.ret.code = "InvalidResponse")
    /\ (result.op = GetThreadMessagesOp /\ result.provider = "claude_code"
            /\ result.thread_id \in C18_ExcludedTranscriptIds)
          => (~result.ret.ok /\ result.ret.code = "InvalidResponse")
    /\ (IsListingOf("opencode") /\ IsNone(result.project_path)) =>
          \A j \in 1..Len(ocSessions) :
              ~C18_HasParentReference(ocSessions[j]) =>
                  \E i \in 1..Len(result.ret.value) :
                      ListedSummary(i).id = C18_SessionId(ocSessions[j])

\* The same statement with the parent reference read as the code reads it:
\* parentId counts only when the record has no parentID key (true of the code).
C18_ExcludedByFirstParentKey ==
    /\ IsListingOf("opencode") =>
          \A i \in 1..Len(result.ret.value) :
              \E j \in 1..Len(ocSessions) :
                  /\ C18_SessionId(ocSessions[j]) = ListedSummary(i).id
                  /\ IsNone(opencode_session_parent_id(ocSessions[j]))
    /\ IsListingOf("claude_code") =>
          \A i \in 1..Len(result.ret.value) :
              ListedSummary(i).id \notin C18_ExcludedTranscriptIds
    /\ (result.op = GetThreadMessagesOp /\ result.provider = "claude_code"
            /\ result.thread_id \in C18_ExcludedTranscriptIds)
          => (~result.ret.ok /\ result.ret.code = "InvalidResponse")

Markers == {LocalCommandTag, UserInstructionsTag, EnvironmentContextTag}

\* C19: no message record returned by get_thread_messages has content taken
\* from a text that contains a local-command-output marker or an instruction
\* or context injection marker, wherever the marker stands in the text and
\* whatever block carries the text.
C19_NoMarkedTextInMessages ==
    (result.op = GetThreadMessagesOp /\ result.ret.ok) =>
        \A i \in 1..Len(result.ret.value) :
            \A marker \in Markers : ~Contains(result.ret.value[i].content, marker)

\* What the code does discard: a Claude text (bare, in a text block or
\* nested) that holds the local-command marker anywhere, and a Codex text that
\* begins with an instruction or context marker.
C19_MarkersTheCodeDiscards ==
    (result.op = GetThreadMessagesOp /\ result.ret.ok) =>
        \A i \in 1..Len(result.ret.value) :
            LET record == result.ret.value[i] IN
            /\ (result.provider = "claude_code" /\ record.kind = MESSAGE_KIND_TEXT)
                  => ~Contains(record.content, LocalCommandTag)
            /\ result.provider = "codex"
                  => /\ ~StartsWith(record.content, <<UserInstructionsTag>>)
                     /\ ~StartsWith(record.content, <<EnvironmentContextTag>>)

EndsWith(s, suffix) ==
    Len(suffix) <= Len(s) /\ SubSeq(s, Len(s) - Len(suffix) + 1, Len(s)) = suffix

\* The record of a transcript is an assistant message of one tool-invocation
\* block.
C20_IsToolUseLine(line) ==
    /\ line.enc = "json"
    /\ IsSome(line.message)
    /\ IsSome(Unwrap(line.message).content)
    /\ Unwrap(Unwrap(line.message).content).k = "array"
    /\ Len(Unwrap(Unwrap(line.message).content).items) = 1
    /\ Unwrap(Unwrap(line.message).content).items[1].type = Some("tool_use")

C20_BlockOf(line) == Unwrap(Unwrap(line.message).content).items[1]

\* C20: a tool-invocation block yields exactly one record of kind tool,
\* collapsed, whose content is the tool name followed by an "IN <argument>"
\* part for its primary argument; the command is the first in the priority
\* order, so an input holding a command, alone or next to a pattern or a
\* description, is summarized by "IN <command>".
C20_ToolUseSummarizedByCommand ==
    (/\ result.op = GetThreadMessagesOp
     /\ result.provider = "claude_code"
     /\ result.thread_id = IdT1
     /\ result.ret.ok
     /\ \A k \in 1..Len(claudeFiles[1].lines) : C20_IsToolUseLine(claudeFiles[1].lines[k]))
        => /\ Len(result.ret.value) = Len(claudeFiles[1].lines)
           /\ \A k \in 1..Len(result.ret.value) :
                 LET record == result.ret.value[k]
                     block == C20_BlockOf(claudeFiles[1].lines[k])
                 IN /\ record.kind = MESSAGE_KIND_TOOL
                    /\ record.collapsed
                    /\ StartsWith(record.content, Unwrap(block.name))
                    /\ IsSome(Unwrap(block.input).command) =>
                          EndsWith(record.content,
                                   <<"IN", " ">> \o Unwrap(Unwrap(block.input).command))

\* The same statement for inputs without a pattern (true of the code).
C20_CommandWithoutPattern ==
    (/\ result.op = GetThreadMessagesOp
     /\ result.provider = "claude_code"
     /\ result.thread_id = IdT1
     /\ result.ret.ok
     /\ \A k \in 1..Len(claudeFiles[1].lines) :
           /\ C20_IsToolUseLine(claudeFiles[1].lines[k])
           /\ IsNone(Unwrap(C20_BlockOf(claudeFiles[1].lines[k]).input).pattern))
        => /\ Len(result.ret.value) = Len(claudeFiles[1].lines)
           /\ \A k \in 1..Len(result.ret.value) :
                 LET record == result.ret.value[k]
                     block == C20_BlockOf(claudeFiles[1].lines[k])
                 IN /\ record.kind = MESSAGE_KIND_TOOL
                    /\ record.collapsed
                    /\ StartsWith(record.content, Unwrap(block.name))
                    /\ IsSome(Unwrap(block.input).command) =>
                          EndsWith(record.content,
                                   <<"IN", " ">> \o Unwrap(Unwrap(block.input).command))

\* The text of a line written by ClaudeCommandWrapperLines.
C21_TextOf(line) ==
    LET content == Unwrap(Unwrap(line.message).content)
    IN IF content.k = "string" THEN content.s ELSE Unwrap(content.items[1].text)

C21_WrappersOf(line) == CHOOSE w \in CommandWrapperTexts : w.text = C21_TextOf(line)

\* The text holds a command-name wrapper with non-blank inner text, or only a
\* command-message wrapper, and no local-command marker.
C21_IsWrapped(line) ==
    LET w == C21_WrappersOf(line) IN
    /\ ~Contains(w.text, LocalCommandTag)
    /\ \/ IsSome(w.name) /\ Trim(Unwrap(w.name)) # << >>
       \/ IsNone(w.name) /\ IsSome(w.message)

C21_Expected(line) ==
    LET w == C21_WrappersOf(line) IN
    IF IsSome(w.name) THEN Trim(Unwrap(w.name)) ELSE Unwrap(w.message)

\* C21: a Claude message whose text holds a command-name wrapper with
\* non-blank inner text X, and no local-command marker, yields exactly one
\* record of kind text whose content is the trimmed X, also next to a
\* command-message wrapper; with only a command-message wrapper the content is
\* the inner text of that wrapper.
C21_CommandNameWins ==
    (/\ result.op = GetThreadMessagesOp
     /\ result.provider = "claude_code"
     /\ result.thread_id = IdT1
     /\ \A k \in 1..Len(claudeFiles[1].lines) : C21_IsWrapped(claudeFiles[1].lines[k]))
        => /\ result.ret.ok
           /\ Len(result.ret.value) = Len(claudeFiles[1].lines)
           /\ \A k \in 1..Len(result.ret.value) :
                 /\ result.ret.value[k].kind = MESSAGE_KIND_TEXT
                 /\ result.ret.value[k].content = C21_Expected(claudeFiles[1].lines[k])

\* A transcript of two wrapped texts, one holding both wrappers and one only
\* the command-message wrapper, has been read.
C21_Witness ==
    /\ result.op = GetThreadMessagesOp
    /\ result.provider = "claude_code"
    /\ result.thread_id = IdT1
    /\ result.ret.ok
    /\ Len(claudeFiles[1].lines) = 2
    /\ \A k \in 1..2 : C21_IsWrapped(claudeFiles[1].lines[k])
    /\ LET w == C21_WrappersOf(claudeFiles[1].lines[1])
       IN IsSome(w.name) /\ IsSome(w.message)
    /\ IsNone(C21_WrappersOf(claudeFiles[1].lines[2]).name)
    /\ Len(result.ret.value) = 2

C22_Rows == IF IsSome(db.schema_migrations) THEN Unwrap(db.schema_migrations) ELSE << >>

C22_RowsOf(id) == SelectSeq(C22_Rows, LAMBDA row : row.id = id)

\* Every migration has exactly one row and its SQL has been applied once.
C22_Migrated ==
    \A id \in MigrationIds : Len(C22_RowsOf(id)) = 1 /\ db.applied[id] = 1

\* At any time a migration has at most one row, its SQL has been applied as
\* many times as it has rows, and no other id has a row; after a successful
\* run every migration has its row.
C22_Recorded ==
    /\ \A id \in MigrationIds : Len(C22_RowsOf(id)) <= 1 /\ db.applied[id] = Len(C22_RowsOf(id))
    /\ \A i \in 1..Len(C22_Rows) : C22_Rows[i].id \in MigrationIds
    /\ (result.op \in {RunMigrationsOp, InitDbOp} /\ result.ret.ok) => C22_Migrated

\* C22: run_migrations is idempotent. After one or more successful runs on
\* the same database schema_migrations holds exactly one row per migration
\* id and each migration's SQL has been applied exactly once, whatever runs
\* and failures follow; a migration is recorded if and only if its SQL was
\* applied; and a run on a migrated database in which no statement fails
\* succeeds and changes nothing.
C22_RunMigrationsIdempotent ==
    /\ []C22_Recorded
    /\ [][C22_Migrated => (C22_Migrated' /\ db' = db)]_vars
    /\ [][(C22_Migrated /\ result'.op = RunMigrationsOp /\ result'.fault = "none"
              /\ result' # result) => result'.ret.ok]_vars

\* A run succeeded on a database that an earlier run had migrated.
C22_Witness ==
    /\ result.op = RunMigrationsOp
    /\ result.ret.ok
    /\ C22_Migrated
    /\ \E i \in 1..Len(C22_Rows) : C22_Rows[i].applied_at < result.at

\* C23: in the runtime state returned for a thread, last_event_at_ms is the
\* timestamp of the record that produced last_event_kind, the last classified
\* record; when that record carries no usable timestamp the state does not
\* report the timestamp of an earlier record next to the kind of the last one.
C23_TimestampOfLastClassified ==
    (IsCall(GetThreadRuntimeStateOp, "codex") /\ result.ret.ok) =>
        LET recs == JsonRecords(CodexTranscriptOf(result.thread_id))
            K == CodexClassified(recs)
            state == result.ret.value
        IN IF K = {} THEN IsNone(state.last_event_kind) /\ IsNone(state.last_event_at_ms)
           ELSE /\ state.last_event_kind =
                      Some(codex_kind_as_str(
                              Unwrap(codex_extract_semantic_event_kind(recs[Last(K)]))))
                /\ state.last_event_at_ms = codex_parse_timestamp_ms(recs[Last(K)].timestamp)

\* What the code returns: the kind of the last classified record and the
\* timestamp of the last classified record that carries one.
C23_TimestampOfLastTimed ==
    (IsCall(GetThreadRuntimeStateOp, "codex") /\ result.ret.ok) =>
        LET recs == JsonRecords(CodexTranscriptOf(result.thread_id))
            T == CodexTimed(recs)
            state == result.ret.value
        IN state.last_event_at_ms =
              (IF T = {} THEN None ELSE codex_parse_timestamp_ms(recs[Last(T)].timestamp))

\* The millisecond value of a timestamp field under the normalization rule:
\* an integer or a string of one is in seconds below 10^12 and in
\* milliseconds from there, another string is read as RFC 3339, and anything
\* else is no timestamp.
C24_UsableMs(timestamp) ==
    IF IsNone(timestamp) THEN None
    ELSE LET v == Unwrap(timestamp) IN
         CASE v.k \in {"number", "numstr"} ->
                Some(IF v.int.scale = "s" THEN 1000 * v.int.off ELSE v.int.off)
           [] v.k = "rfc3339" -> Some(v.ms)
           [] OTHER -> None

C24_MaximumOf(file) ==
    LET recs == JsonRecords(file)
        stamps == { Unwrap(C24_UsableMs(recs[i].timestamp)) :
                      i \in { j \in 1..Len(recs) : IsSome(C24_UsableMs(recs[j].timestamp)) } }
        all == stamps \cup {file.mtime}
    IN CHOOSE m \in all : \A n \in all : n <= m

\* The thread records the scan of the provider just listed makes of its files.
C24_Scanned ==
    IF result.provider = "claude_code"
    THEN [i \in 1..Len(claudeFiles) |-> claude_parse_thread_file(claudeFiles[i], now)]
    ELSE [i \in 1..Len(codexFiles) |-> codex_parse_thread_file(codexFiles[i], now)]

C24_Files == IF result.provider = "claude_code" THEN claudeFiles ELSE codexFiles

\* C24: for Claude and Codex a thread's sort_key equals the maximum of the
\* file modification time and the normalized millisecond timestamps of all
\* its records that carry a usable timestamp.
C24_SortKeyIsMaximum ==
    (IsListingOf("claude_code") \/ IsListingOf("codex")) =>
        \A i \in 1..Len(C24_Files) :
            IsSome(C24_Scanned[i]) =>
                Unwrap(C24_Scanned[i]).sort_key = C24_MaximumOf(C24_Files[i])

\* What holds of both providers: sort_key is never below the modification
\* time and never above the maximum; for Codex it is the maximum.
C24_SortKeyBetween ==
    (IsListingOf("claude_code") \/ IsListingOf("codex")) =>
        \A i \in 1..Len(C24_Files) :
            IsSome(C24_Scanned[i]) =>
                /\ Unwrap(C24_Scanned[i]).sort_key >= C24_Files[i].mtime
                /\ Unwrap(C24_Scanned[i]).sort_key <= C24_MaximumOf(C24_Files[i])
                /\ result.provider = "codex" =>
                      Unwrap(C24_Scanned[i]).sort_key = C24_MaximumOf(C24_Files[i])

\* A write or a resize that began after its session id had been taken out of
\* the map is at its lookup, and no id is taken out and still in the map.
C25_StaleCommandsStopAtLookup ==
    /\ terminal.removed \cap terminal.registry = {}
    /\ \A c \in Callers :
          (terminal.callers[c].op \in {WriteOp, ResizeOp} /\ terminal.callers[c].stale)
              => terminal.callers[c].pc = "get"

\* The step of such a command returns the error and changes neither the map
\* nor any session.
C25_StaleCommandStep ==
    \A c \in Callers :
        LET caller == terminal.callers[c] IN
        (caller.op \in {WriteOp, ResizeOp} /\ caller.stale /\ terminal'.callers[c] # caller)
            => /\ result' = TerminalCall(caller.op, caller.session_id, TRUE,
                                         TerminalError(SessionNotFound))
               /\ terminal'.callers[c] = IdleCaller
               /\ terminal'.registry = terminal.registry
               /\ terminal'.sessions = terminal.sessions
               /\ terminal'.removed = terminal.removed

\* C25: write_embedded_terminal_input and resize_embedded_terminal act only
\* on sessions in the registry: once a session id has been removed, by
\* close_embedded_terminal or by the exit watcher, every later write or resize
\* on that id returns the "session not found" error and leaves the registry
\* and every session unchanged, under any interleaving of start, write,
\* resize, close and child exit.
C25_RemovedSessionNotFound ==
    /\ []C25_StaleCommandsStopAtLookup
    /\ [][C25_StaleCommandStep]_vars

\* A write on a removed id has returned while another session is in the map
\* and a command on that session is under way.
C25_Witness ==
    /\ result.op = WriteOp
    /\ result.stale
    /\ ~result.ret.ok
    /\ \E session_id \in terminal.registry : session_id # result.session_id
    /\ \E c \in Callers : terminal.callers[c].op \in {WriteOp, ResizeOp, CloseOp}

C26_ExitEvents(session_id) ==
    Len(SelectSeq(terminal.events[session_id],
                  LAMBDA payload : payload.event = "embedded-terminal-exit"))

\* No session has more than one exit event, and a watcher that has finished
\* has removed its session and emitted the event.
C26_AtMostOneExitEvent ==
    \A session_id \in TerminalIds :
        /\ C26_ExitEvents(session_id) <= 1
        /\ terminal.watchers[session_id].pc = "done"
              => session_id \notin terminal.registry /\ C26_ExitEvents(session_id) = 1

\* C26: for every embedded terminal session that was started, once its child
\* has exited, by itself or killed by close_embedded_terminal, the exit
\* watcher eventually removes the session id from the registry and emits
\* exactly one embedded-terminal-exit event for that id, whether
\* close_embedded_terminal ran before, during or after the exit.
C26_ExitIsReportedOnce ==
    /\ []C26_AtMostOneExitEvent
    /\ \A session_id \in TerminalIds :
          (terminal.sessions[session_id].child = "exited")
              ~> (/\ terminal.watchers[session_id].pc = "done"
                  /\ session_id \notin terminal.registry
                  /\ C26_ExitEvents(session_id) = 1)

\* The watcher of a session has finished after close_embedded_terminal had
\* removed the session and killed the child.
C26_Witness ==
    \E session_id \in TerminalIds :
        /\ terminal.watchers[session_id].pc = "done"
        /\ terminal.watchers[session_id].status_code = Some(0)
        /\ C26_ExitEvents(session_id) = 1
        /\ result.op = CloseOp
        /\ result.session_id = session_id
        /\ session_id \in terminal.removed

\* C27: all embedded-terminal-output events of a session are emitted before
\* its embedded-terminal-exit event: no output event for a session id follows
\* the exit event of that id, under any interleaving of the output reader
\* thread and the exit watcher thread.
C27_NoOutputAfterExit ==
    \A session_id \in TerminalIds :
        \A i \in 1..Len(terminal.events[session_id]) :
            terminal.events[session_id][i].event = "embedded-terminal-exit"
                => i = Len(terminal.events[session_id])

\* What holds: the events of a session are the output events of its reader,
\* in the order of the bytes read, and at most one exit event anywhere among
\* them.
C27_ExitAnywhereAmongOutput ==
    \A session_id \in TerminalIds :
        LET output == SelectSeq(terminal.events[session_id],
                                LAMBDA payload : payload.event = "embedded-terminal-output")
        IN /\ Len(terminal.events[session_id]) <= Len(output) + 1
           /\ \A i \in 1..Len(output) : output[i].session_id = session_id

C28_Threads ==
    { CallerThread(c) : c \in Callers } \cup { WatcherThread(id) : id \in TerminalIds }

\* The mutexes a thread holds: the registry, and the child, stdin and master
\* of each session.
C28_LocksHeldBy(thread) ==
    (IF terminal.registry_lock = thread THEN { <<"registry", 0>> } ELSE {})
    \cup { <<"child", id>> : id \in { i \in TerminalIds : terminal.sessions[i].child_lock = thread } }
    \cup { <<"stdin", id>> : id \in { i \in TerminalIds : terminal.sessions[i].stdin_lock = thread } }
    \cup { <<"master", id>> :
              id \in { i \in TerminalIds : terminal.sessions[i].master_lock = thread } }

\* The thread is about to lock a mutex, or has nothing under way.
C28_WaitsOrRests(thread) ==
    IF thread[1] = "caller"
    THEN terminal.callers[thread[2]].pc \in
            {"idle", "lock_registry", "lock_stdin", "lock_master", "lock_child"}
    ELSE terminal.watchers[thread[2]].pc \in {"none", "poll", "lock_registry", "emit", "done"}

\* No thread holds two mutexes, and none holds one while it waits for one.
C28_NoLockHeldWhileWaiting ==
    \A thread \in C28_Threads :
        /\ Cardinality(C28_LocksHeldBy(thread)) <= 1
        /\ C28_WaitsOrRests(thread) => C28_LocksHeldBy(thread) = {}

C28_CloseWaitsForWatcher ==
    \E session_id \in TerminalIds, c \in Callers :
        /\ terminal.callers[c].pc = "lock_child"
        /\ terminal.callers[c].session_id = session_id
        /\ terminal.sessions[session_id].child_lock = WatcherThread(session_id)

\* The data of the output events of session 1, one after the other.
C29_Emitted == Flatten([i \in 1..Len(terminal.events[1]) |-> terminal.events[1][i].data])

\* The bytes read so far, whatever the reads were.
C29_Stream == Flatten(terminal.readers[1].taken)

\* The bytes read so far without those the reader holds back.
C29_Decided == Take(C29_Stream, Len(C29_Stream) - Len(terminal.readers[1].pending))

\* C29: for every byte stream read from the PTY until end of file and every
\* way the stream is split into reads, the concatenation of the data of the
\* emitted embedded-terminal-output events equals the lossy UTF-8 decoding of
\* the whole stream: a char split across reads is emitted once and intact, each
\* invalid sequence gives one replacement character, no event has empty data
\* and no byte is emitted twice or dropped.  Between reads the events are the
\* decoding of what was read without the bytes held back for the next read.
C29_OutputIsLossyDecoding ==
    /\ \A i \in 1..Len(terminal.events[1]) : terminal.events[1][i].data # << >>
    /\ terminal.readers[1].pc = "read" =>
          /\ C29_Emitted = from_utf8_lossy(C29_Decided)
          /\ C29_Decided \o terminal.readers[1].pending = C29_Stream
    /\ terminal.readers[1].pc = "eof" =>
          /\ terminal.sessions[1].pty = << >>
          /\ terminal.readers[1].pending = << >>
          /\ C29_Emitted = from_utf8_lossy(C29_Stream)

\* The stream has ended after an invalid byte and a char of three bytes that
\* came in two reads, and the char is the data of one event.
C29_Witness ==
    /\ terminal.readers[1].pc = "eof"
    /\ terminal.readers[1].taken = << <<255, 226, 130>>, <<172>> >>
    /\ C29_Emitted = <<REPLACEMENT_CHARACTER, <<226, 130, 172>>>>

\* The stream has ended in the middle of a char: one replacement character
\* stands for the bytes held back.
C29_CutShortAtEnd ==
    /\ terminal.readers[1].pc = "eof"
    /\ terminal.readers[1].taken = << <<97, 226>>, <<130>> >>
    /\ C29_Emitted = << <<97>>, REPLACEMENT_CHARACTER >>

C30_Transcripts == {"claude_code", "codex"}

C30_Files(provider_id) == IF provider_id = "claude_code" THEN claudeFiles ELSE codexFiles

C30_Record(provider_id, file) ==
    IF provider_id = "claude_code" THEN claude_parse_thread_file(file, now)
    ELSE codex_parse_thread_file(file, now)

C30_Messages(provider_id, file) ==
    IF provider_id = "claude_code" THEN claude_load_thread_messages(file)
    ELSE codex_load_thread_messages(file)

C30_Listing(provider_id) ==
    IF provider_id = "claude_code" THEN claude_list_threads(None, now).value
    ELSE codex_list_threads(None, now).value

\* The transcripts of the provider whose thread id is `thread_id`.
C30_Carrying(provider_id, thread_id) ==
    { i \in 1..Len(C30_Files(provider_id)) :
        /\ roots[provider_id] = "ok"
        /\ C30_Files(provider_id)[i].ext = "jsonl"
        /\ IsSome(C30_Record(provider_id, C30_Files(provider_id)[i]))
        /\ Unwrap(C30_Record(provider_id, C30_Files(provider_id)[i])).summary.id = thread_id }

C30_SortKey(provider_id, i) ==
    Unwrap(C30_Record(provider_id, C30_Files(provider_id)[i])).sort_key

C30_FirstListed(provider_id, thread_id) ==
    Find(C30_Listing(provider_id), LAMBDA summary : summary.id = thread_id)

\* C30: for Claude and Codex, get_thread_messages(id) returns the messages of
\* exactly one transcript file, a file whose thread id is the requested id;
\* when several files carry the id, that file has the greatest sort_key among
\* them and is the thread that comes first for the id in the listing.  With
\* no file carrying the id the call fails.
C30_MessagesOfOneTranscript ==
    (result.op = GetThreadMessagesOp /\ result.provider \in C30_Transcripts) =>
        LET carrying == C30_Carrying(result.provider, result.thread_id) IN
        IF carrying = {} THEN ~result.ret.ok
        ELSE /\ result.ret.ok
             /\ \E i \in carrying :
                   /\ result.ret.value =
                          C30_Messages(result.provider, C30_Files(result.provider)[i])
                   /\ \A j \in carrying :
                          C30_SortKey(result.provider, j) <= C30_SortKey(result.provider, i)
                   /\ C30_FirstListed(result.provider, result.thread_id) =
                          Some(Unwrap(C30_Record(result.provider,
                                                 C30_Files(result.provider)[i])).summary)

\* Both transcripts of Claude carry the requested id, the second of the
\* directory has the greater sort_key and other messages than the first, and
\* the call returned the messages of the second.
C30_Witness ==
    /\ result.op = GetThreadMessagesOp
    /\ result.provider = "claude_code"
    /\ C30_Carrying("claude_code", result.thread_id) = {1, 2}
    /\ C30_SortKey("claude_code", 2) > C30_SortKey("claude_code", 1)
    /\ C30_Messages("claude_code", claudeFiles[1]) # C30_Messages("claude_code", claudeFiles[2])
    /\ C30_Messages("claude_code", claudeFiles[1]) # << >>
    /\ result.ret.ok
    /\ result.ret.value = C30_Messages("claude_code", claudeFiles[2])

\* The same for Codex.
C30_CodexSecondTranscriptUsed ==
    /\ result.op = GetThreadMessagesOp
    /\ result.provider = "codex"
    /\ C30_Carrying("codex", result.thread_id) = {1, 2}
    /\ C30_SortKey("codex", 2) > C30_SortKey("codex", 1)
    /\ C30_Messages("codex", codexFiles[1]) # C30_Messages("codex", codexFiles[2])
    /\ C30_Messages("codex", codexFiles[1]) # << >>
    /\ result.ret.ok
    /\ result.ret.value = C30_Messages("codex", codexFiles[2])

====
